---- MODULE Spec2Model ----
(***************************************************************************)
(* Model of the weather analytics processor                                *)
(* (src/src/processing/analyzer.py, class WeatherDataProcessor), of the    *)
(* fetcher (src/src/data/fetcher.py), of the scheduled pipeline            *)
(* (src/dags/weather_pipeline_dag.py) and of the dashboard's consolidation *)
(* of alerts (src/src/app.py).  Each component has its own next-state      *)
(* relation: Next, FetcherNext, PipelineNext and DashboardNext.            *)
(*                                                                         *)
(* Representation.                                                         *)
(*   - A DataFrame is a record [cols, rows]: cols is the set of column     *)
(*     names, rows the sequence of rows in positional order; a row is a    *)
(*     record with one field per column.  pd.DataFrame() is EmptyFrame.    *)
(*   - Measurements are integers (exact arithmetic, no float rounding).    *)
(*   - A mean is an exact fraction [num, den] in lowest terms (Frac).      *)
(*   - A timestamp is the number of hours since the epoch of the model; a  *)
(*     raw time string is the pair <<day, hour>> it spells.                *)
(*   - A city name is a natural number, its rank in the alphabetical       *)
(*     order of the names (groupby sorts its keys by that order).          *)
(*   - A call that raises returns [kind |-> "raise", error |-> name].      *)
(***************************************************************************)
EXTENDS Integers, Sequences, FiniteSets, TLC

VARIABLES
    raw_data,           \* the batch of per-city payloads handed to the processor
    df,                 \* the caller's observation table
    ma_window,          \* self.ma_window
    anomaly_threshold,  \* self.anomaly_threshold, the fraction [num, den]
    alert_config,       \* self.alert_config
    op,                 \* the processor operation called last
    result,             \* what that call returned (or raised)
    fetcher,            \* the fetcher, its call of fetch_all_cities and the
                        \* requests and sleeps of that call
    dag                 \* the state of the tasks of a run of the pipeline

vars == <<raw_data, df, ma_window, anomaly_threshold, alert_config, op, result,
          fetcher, dag>>

----------------------------------------------------------------------------
(* Values and helpers                                                      *)

\* a missing value of an object (string) column
NaN == "NaN"

\* a missing value of a float column that holds exact fractions (0/0)
NaNFrac == [num |-> 0, den |-> 0]

Ok(v) == [kind |-> "ok", value |-> v]

Raise(e) == [kind |-> "raise", error |-> e]

EmptyFrame == [cols |-> {}, rows |-> <<>>]

Abs(x) == IF x < 0 THEN -x ELSE x

RECURSIVE GCD(_, _)
GCD(a, b) == IF b = 0 THEN a ELSE GCD(b, a % b)

\* the exact quotient n / d (d # 0), in lowest terms with a positive denominator
Frac(n, d) ==
    LET g == GCD(Abs(n), Abs(d))
        s == IF d < 0 THEN -1 ELSE 1
    IN  [num |-> (s * n) \div g, den |-> (s * d) \div g]

\* the sum of s[lo..hi]: that of the lower half plus that of the upper half
RECURSIVE SumRange(_, _, _)
SumRange(s, lo, hi) ==
    IF lo > hi THEN 0
    ELSE IF lo = hi THEN s[lo]
    ELSE LET mid == (lo + hi) \div 2
         IN  SumRange(s, lo, mid) + SumRange(s, mid + 1, hi)

SeqSum(s) == SumRange(s, 1, Len(s))

\* the greatest and the least value of a sequence that is not empty
SeqMax(s) == CHOOSE x \in {s[i] : i \in 1..Len(s)} : \A i \in 1..Len(s) : s[i] <= x

SeqMin(s) == CHOOSE x \in {s[i] : i \in 1..Len(s)} : \A i \in 1..Len(s) : x <= s[i]

\* a missing measurement: the NaN of a column of numbers, which a null of the
\* hourly arrays becomes. It compares false with every threshold and the
\* reductions of a column skip it
Missing == -999

\* the values of a column of numbers that are not missing
Present(xs) == SelectSeq(xs, LAMBDA x : x # Missing)

\* Series.sum(): 0 for a series without values
ColSum(xs) == SeqSum(Present(xs))

\* Series.max() and Series.min(): missing for a series without values
ColMax(xs) == IF Present(xs) = <<>> THEN NaNFrac ELSE SeqMax(Present(xs))

ColMin(xs) == IF Present(xs) = <<>> THEN NaNFrac ELSE SeqMin(Present(xs))

\* the members of S in ascending order
RECURSIVE Ascending(_)
Ascending(S) ==
    IF S = {} THEN <<>>
    ELSE LET least == CHOOSE x \in S : \A y \in S : x <= y
         IN  <<least>> \o Ascending(S \ {least})

\* the distinct values of s in ascending order
UniqueSorted(s) == Ascending({s[i] : i \in DOMAIN s})

\* Series.unique(): the distinct values in order of first appearance
\* the positions lo..hi (ascending) that a boolean mask selects: those of the
\* lower half, then those of the upper half
RECURSIVE PositionsIn(_, _, _)
PositionsIn(mask, lo, hi) ==
    IF lo > hi THEN <<>>
    ELSE IF lo = hi THEN (IF mask[lo] THEN <<lo>> ELSE <<>>)
    ELSE LET mid == (lo + hi) \div 2
         IN  PositionsIn(mask, lo, mid) \o PositionsIn(mask, mid + 1, hi)

\* the positions (ascending) of the rows a boolean mask selects
MaskPositions(mask, n) == PositionsIn(mask, 1, n)

\* Series.unique(): the distinct values in order of first appearance
Unique(s) ==
    LET n == Len(s)
        first == MaskPositions([i \in 1..n |-> \A j \in 1..(i - 1) : s[j] # s[i]], n)
    IN  [k \in 1..Len(first) |-> s[first[k]]]

\* a column of a frame, as the sequence of its values in row order
Column(t, c) == [i \in 1..Len(t.rows) |-> t.rows[i][c]]

\* df[mask]: the selected rows, in row order
Select(rows, mask) ==
    LET pos == MaskPositions(mask, Len(rows))
    IN  [k \in 1..Len(pos) |-> rows[pos[k]]]

\* df['city'] == city
CityMask(rows, city) == [i \in 1..Len(rows) |-> rows[i].city = city]

\* sort_values('time'): ascending by time, each row at the place that the
\* number of rows before it gives (the time stamps of one city are distinct,
\* so the sorted order is unique; rows of equal time would keep their order)
SortByTime(rows) ==
    LET n == Len(rows)
        given == SubSeq(rows, 1, n)
        place == SubSeq([i \in 1..n |->
                    Cardinality({j \in 1..n : \/ given[j].time < given[i].time
                                              \/ given[j].time = given[i].time /\ j <= i})],
                        1, n)
    IN  SubSeq([k \in 1..n |-> given[CHOOSE i \in 1..n : place[i] = k]], 1, n)

----------------------------------------------------------------------------
(* Program constants                                                       *)

HoursPerDay == 24       \* time.dt.date: the calendar date of a time stamp

HeatThreshold == 35     \* temperature_2m > 35

HeatMinRun == 3         \* heat_sequences >= 3

ColdLag == 24           \* diff(periods=24)

ColdDrop == -10         \* temp_change_24h < -10

RainWindow == 3         \* rolling(window=3)

RainThreshold == 30     \* precip_3h > 30

\* the eleven names assigned to daily_stats.columns
DailyColumnNames ==
    <<"city", "date", "temp_mean", "temp_min", "temp_max", "humidity_mean",
      "precipitation_total", "wind_max", "cloud_cover_mean", "latitude",
      "longitude">>

----------------------------------------------------------------------------
(* raw_to_dataframe                                                        *)

\* pd.to_datetime of the time string that spells <<day, hour>>
to_datetime(s) == s[1] * HoursPerDay + s[2]

\* the body of the loop of raw_to_dataframe: the frame of one payload
PayloadFrame(city_data) ==
    IF {"city_name", "lat", "lon", "hourly"} \ DOMAIN city_data # {}
    THEN Raise("KeyError")
    ELSE
      LET hourly == city_data.hourly
          keys == DOMAIN hourly
      IN  IF \E a, b \in keys : Len(hourly[a]) # Len(hourly[b])
          THEN Raise("ValueError")
          ELSE IF "time" \notin keys THEN Raise("KeyError")
          ELSE
            LET n == Len(hourly.time)
                extra == {"city", "latitude", "longitude"}
                           \cup ({"state", "region"} \cap DOMAIN city_data)
                cell(c, i) ==
                    CASE c = "city" -> city_data.city_name
                      [] c = "latitude" -> city_data.lat
                      [] c = "longitude" -> city_data.lon
                      [] c = "state" -> city_data.state
                      [] c = "region" -> city_data.region
                      [] c = "time" -> to_datetime(hourly.time[i])
                      [] OTHER -> hourly[c][i]
            IN  Ok([cols |-> keys \cup extra,
                    rows |-> [i \in 1..n |->
                                [c \in keys \cup extra |-> cell(c, i)]]])

\* all_records after the loop over raw_data; the first payload that raises ends it
RECURSIVE AllRecords(_)
AllRecords(raw) ==
    IF raw = <<>> THEN Ok(<<>>)
    ELSE LET before == AllRecords(SubSeq(raw, 1, Len(raw) - 1))
         IN  IF before.kind = "raise" THEN before
             ELSE LET f == PayloadFrame(raw[Len(raw)])
                  IN  IF f.kind = "raise" THEN f
                      ELSE Ok(Append(before.value, f.value))

\* the rows of the frames, the last frame first
RECURSIVE ConcatRowsReversed(_, _)
ConcatRowsReversed(frames, cols) ==
    IF frames = <<>> THEN <<>>
    ELSE LET f == frames[Len(frames)]
         IN  [i \in 1..Len(f.rows) |->
                [c \in cols |-> IF c \in f.cols THEN f.rows[i][c] ELSE NaN]]
               \o ConcatRowsReversed(SubSeq(frames, 1, Len(frames) - 1), cols)

\* the rows of the frames one after the other, a missing column filled with NaN
RECURSIVE ConcatRows(_, _)
ConcatRows(frames, cols) ==
    IF frames = <<>> THEN <<>>
    ELSE LET f == frames[Len(frames)]
         IN  ConcatRows(SubSeq(frames, 1, Len(frames) - 1), cols) \o
               [i \in 1..Len(f.rows) |->
                  [c \in cols |-> IF c \in f.cols THEN f.rows[i][c] ELSE NaN]]

\* pd.concat(all_records, ignore_index=True)
Concat(frames) ==
    LET cols == UNION {frames[i].cols : i \in 1..Len(frames)}
    IN  [cols |-> cols, rows |-> ConcatRows(frames, cols)]

\* the conversion without its test for an empty all_records: pd.concat of no
\* frames raises ValueError
raw_to_dataframe_unguarded(raw) ==
    LET all_records == AllRecords(raw)
    IN  IF all_records.kind = "raise" THEN all_records
        ELSE IF all_records.value = <<>> THEN Raise("ValueError")
        ELSE Ok(Concat(all_records.value))

raw_to_dataframe(raw) ==
    LET all_records == AllRecords(raw)
    IN  IF all_records.kind = "raise" THEN all_records
        ELSE IF all_records.value = <<>> THEN Ok(EmptyFrame)
        ELSE Ok(Concat(all_records.value))

----------------------------------------------------------------------------
(* calculate_moving_averages                                               *)

\* a window that never lets a row go: the running <<sum, count>> of rows 1..i
RECURSIVE RollAccExpanding(_, _, _)
RollAccExpanding(xs, window, i) ==
    IF i = 0 THEN <<0, 0>>
    ELSE LET p == RollAccExpanding(xs, window, i - 1)
         IN  IF xs[i] = Missing THEN p ELSE <<p[1] + xs[i], p[2] + 1>>

\* the window's <<sum, number of observations>> once row i has entered it
\* and row i - window has left it: those of the rows i - window + 1 .. i; a
\* missing value is no observation
RollAcc(xs, window, i) ==
    LET lo == IF i > window THEN i - window + 1 ELSE 1
        held == [k \in 1..(i - lo + 1) |->
                    IF xs[lo + k - 1] = Missing THEN 0 ELSE xs[lo + k - 1]]
    IN  <<SeqSum(held), Cardinality({j \in lo..i : xs[j] # Missing})>>

\* Series.rolling(window, min_periods).mean()
RollingMean(xs, window, min_periods) ==
    [i \in 1..Len(xs) |->
        LET a == RollAcc(xs, window, i)
        IN  IF a[2] >= min_periods THEN Frac(a[1], a[2]) ELSE NaNFrac]

\* df.loc[mask, col] = values: the k-th selected row takes values[k]; a new
\* column is created holding `missing` in the rows the mask leaves out
SetAt(frame, mask, col, values, missing) ==
    LET n == Len(frame.rows)
        pos == MaskPositions(mask, n)
        rank(i) == Cardinality({k \in 1..Len(pos) : pos[k] <= i})
        cols == frame.cols \cup {col}
    IN  [cols |-> cols,
         rows |-> [i \in 1..n |->
            [c \in cols |->
               IF c # col THEN frame.rows[i][c]
               ELSE IF mask[i] THEN values[rank(i)]
               ELSE IF col \in frame.cols THEN frame.rows[i][col]
               ELSE missing]]]

\* one pass of the loop of calculate_moving_averages
MovingAverageStep(frame, city, window) ==
    LET city_mask == CityMask(frame.rows, city)
        temps == Column([rows |-> Select(frame.rows, city_mask)], "temperature_2m")
    IN  SetAt(frame, city_mask, "temp_ma", RollingMean(temps, window, 1), NaNFrac)

RECURSIVE MovingAverageLoop(_, _, _)
MovingAverageLoop(frame, cities, window) ==
    IF cities = <<>> THEN frame
    ELSE MovingAverageStep(
            MovingAverageLoop(frame, SubSeq(cities, 1, Len(cities) - 1), window),
            cities[Len(cities)], window)

\* the loop has a pass only for a table with rows: it is there that the
\* temperature column is read and that rolling() rejects, with a ValueError, a
\* window smaller than min_periods = 1
calculate_moving_averages(frame, window) ==
    IF "city" \notin frame.cols THEN Raise("KeyError")
    ELSE IF frame.rows = <<>> THEN Ok(frame)
    ELSE IF "temperature_2m" \notin frame.cols THEN Raise("KeyError")
    ELSE IF window < 1 THEN Raise("ValueError")
    ELSE Ok(MovingAverageLoop(frame, Unique(Column(frame, "city")), window))

----------------------------------------------------------------------------
(* detect_anomalies                                                        *)

\* Series.mean(): of the values that are not missing
Mean(xs) ==
    LET p == Present(xs)
    IN  IF p = <<>> THEN NaNFrac ELSE Frac(SeqSum(p), Len(p))

\* the variance of the values as a whole population (ddof = 0)
VariancePopulation(xs) ==
    LET p == Present(xs)
        n == Len(p)
        s == SeqSum(p)
        sq == [i \in 1..n |-> (n * p[i] - s) * (n * p[i] - s)]
    IN  IF n <= 1 THEN NaNFrac ELSE Frac(SeqSum(sq), n * n * n)

\* Series.std() squared: the sample variance (ddof = 1), missing when fewer
\* than two values; computed from the deviations of the values from their
\* mean, the missing values left out
Variance(xs) ==
    LET p == Present(xs)
        n == Len(p)
        s == SeqSum(p)
        sq == [i \in 1..n |-> (n * p[i] - s) * (n * p[i] - s)]
    IN  IF n <= 1 THEN NaNFrac ELSE Frac(SeqSum(sq), n * n * (n - 1))

\* std_temp > 0 (false for a missing std)
StdPositive(var) == var # NaNFrac /\ var.num > 0

\* np.abs(x - mean) > threshold * std, for std > 0: true of every value for a
\* negative threshold, else decided with both sides squared; false for a
\* missing x
ExceedsSigma(x, mean, var, threshold) ==
    LET dev == x * mean.den - mean.num
    IN  /\ x # Missing
        /\ \/ threshold.num < 0
           \/ dev * dev * threshold.den * threshold.den * var.den
                 > threshold.num * threshold.num * var.num * mean.den * mean.den

\* one pass of the loop of detect_anomalies
AnomalyStep(frame, city, threshold) ==
    LET city_mask == CityMask(frame.rows, city)
        city_temps == Column([rows |-> Select(frame.rows, city_mask)], "temperature_2m")
        mean_temp == Mean(city_temps)
        std_temp == Variance(city_temps)
        anomaly_mask == [k \in 1..Len(city_temps) |->
                            ExceedsSigma(city_temps[k], mean_temp, std_temp, threshold)]
    IN  IF StdPositive(std_temp)
        THEN SetAt(frame, city_mask, "temp_anomaly", anomaly_mask, FALSE)
        ELSE frame

RECURSIVE AnomalyLoop(_, _, _)
AnomalyLoop(frame, cities, threshold) ==
    IF cities = <<>> THEN frame
    ELSE AnomalyStep(
            AnomalyLoop(frame, SubSeq(cities, 1, Len(cities) - 1), threshold),
            cities[Len(cities)], threshold)

detect_anomalies(frame, threshold) ==
    LET n == Len(frame.rows)
        flagged == SetAt(frame, [i \in 1..n |-> TRUE], "temp_anomaly",
                         [i \in 1..n |-> FALSE], FALSE)
    IN  IF "city" \notin frame.cols THEN Raise("KeyError")
        ELSE IF frame.rows = <<>> THEN Ok(flagged)
        ELSE IF "temperature_2m" \notin frame.cols THEN Raise("KeyError")
        ELSE Ok(AnomalyLoop(flagged, Unique(Column(frame, "city")), threshold))

----------------------------------------------------------------------------
(* generate_alerts                                                         *)

\* a comparison that also fires at the threshold
ExceedsOrEquals(x, threshold) == x # Missing /\ x >= threshold

\* df[column] > threshold, for one value: false for a missing one
Exceeds(x, threshold) == x # Missing /\ x > threshold

\* a comparison that takes a missing value for a number
BelowOfAnyValue(x, threshold) == x < threshold

\* df[column] < threshold, for one value: false for a missing one
Below(x, threshold) == x # Missing /\ x < threshold

\* the alerts of one type: one per row of df[mask], in row order
AlertsOf(frame, mask, type, field, text) ==
    LET hit == Select(frame.rows, mask)
    IN  [k \in 1..Len(hit) |->
            [type |-> type, city |-> hit[k].city, time |-> hit[k].time,
             value |-> hit[k][field], message |-> <<text, hit[k][field]>>]]

\* self.alert_config holds the four thresholds generate_alerts reads
HasThresholds(cfg) ==
    /\ {"temperature", "wind_speed", "precipitation"} \subseteq DOMAIN cfg
    /\ {"high_threshold", "low_threshold"} \subseteq DOMAIN cfg.temperature
    /\ "high_threshold" \in DOMAIN cfg.wind_speed
    /\ "high_threshold" \in DOMAIN cfg.precipitation

\* a variant that goes through the rows once and appends the alerts of each
\* row as it meets them: the alerts of the types are interleaved
generate_alerts_by_row(frame, cfg) ==
    LET n == Len(frame.rows)
        row(i) == frame.rows[i]
        types == <<"high_temperature", "low_temperature", "high_wind",
                   "heavy_precipitation">>
        fields == <<"temperature_2m", "temperature_2m", "wind_speed_10m",
                    "precipitation">>
        texts == <<"High temperature alert", "Low temperature alert",
                   "High wind alert", "Heavy precipitation alert">>
        hit(i, t) ==
            CASE t = 1 -> Exceeds(row(i).temperature_2m, cfg.temperature.high_threshold)
              [] t = 2 -> Below(row(i).temperature_2m, cfg.temperature.low_threshold)
              [] t = 3 -> Exceeds(row(i).wind_speed_10m, cfg.wind_speed.high_threshold)
              [] OTHER -> Exceeds(row(i).precipitation, cfg.precipitation.high_threshold)
        hits == {p \in (1..n) \X (1..4) : hit(p[1], p[2])}
        before(q, p) == q[1] < p[1] \/ (q[1] = p[1] /\ q[2] < p[2])
        at(k) == CHOOSE p \in hits : Cardinality({q \in hits : before(q, p)}) = k - 1
    IN  IF \/ {"temperature_2m", "wind_speed_10m", "precipitation"} \ frame.cols # {}
           \/ ~HasThresholds(cfg)
        THEN Raise("KeyError")
        ELSE Ok([k \in 1..Cardinality(hits) |->
                    LET i == at(k)[1]
                        t == at(k)[2]
                    IN  [type |-> types[t], city |-> row(i).city, time |-> row(i).time,
                         value |-> row(i)[fields[t]],
                         message |-> <<texts[t], row(i)[fields[t]]>>]])

generate_alerts(frame, cfg) ==
    LET n == Len(frame.rows)
        row(i) == frame.rows[i]
        high_temp_mask ==
            [i \in 1..n |-> Exceeds(row(i).temperature_2m, cfg.temperature.high_threshold)]
        low_temp_mask ==
            [i \in 1..n |-> Below(row(i).temperature_2m, cfg.temperature.low_threshold)]
        high_wind_mask ==
            [i \in 1..n |-> Exceeds(row(i).wind_speed_10m, cfg.wind_speed.high_threshold)]
        high_precip_mask ==
            [i \in 1..n |-> Exceeds(row(i).precipitation, cfg.precipitation.high_threshold)]
    IN  IF \/ {"temperature_2m", "wind_speed_10m", "precipitation"} \ frame.cols # {}
           \/ ~HasThresholds(cfg)
        THEN Raise("KeyError")
        ELSE Ok(AlertsOf(frame, high_temp_mask, "high_temperature",
                         "temperature_2m", "High temperature alert")
                \o AlertsOf(frame, low_temp_mask, "low_temperature",
                            "temperature_2m", "Low temperature alert")
                \o AlertsOf(frame, high_wind_mask, "high_wind",
                            "wind_speed_10m", "High wind alert")
                \o AlertsOf(frame, high_precip_mask, "heavy_precipitation",
                            "precipitation", "Heavy precipitation alert"))

----------------------------------------------------------------------------
(* aggregate_daily_stats                                                   *)

\* time.dt.date
DateOf(time) == time \div HoursPerDay

\* the order of the group keys <<city, date>>: by city, then by date
KeyLess(a, b) == a[1] < b[1] \/ (a[1] = b[1] /\ a[2] < b[2])

\* the group keys in ascending order (groupby sorts its keys)
RECURSIVE SortedKeys(_)
SortedKeys(keys) ==
    IF keys = {} THEN <<>>
    ELSE LET least == CHOOSE k \in keys : \A o \in keys \ {k} : KeyLess(k, o)
         IN  <<least>> \o SortedKeys(keys \ {least})

\* the columns the aggregation reads, in the order of agg_dict
AggregatedColumns(cols) ==
    {"temperature_2m", "relative_humidity_2m", "precipitation", "wind_speed_10m",
     "cloud_cover", "latitude", "longitude"} \cup (cols \cap {"state", "region"})

\* the number of columns of groupby(...).agg(agg_dict).reset_index(): the two
\* keys, three for temperature_2m and one for each other aggregated column
AggregatedWidth(cols) == 2 + 3 + (Cardinality(AggregatedColumns(cols)) - 1)

\* the daily row of one group
DailyRow(key, group) ==
    LET col(c) == [k \in 1..Len(group) |-> group[k][c]]
    IN  [city |-> key[1], date |-> key[2],
         temp_mean |-> Mean(col("temperature_2m")),
         temp_min |-> ColMin(col("temperature_2m")),
         temp_max |-> ColMax(col("temperature_2m")),
         humidity_mean |-> Mean(col("relative_humidity_2m")),
         precipitation_total |-> ColSum(col("precipitation")),
         wind_max |-> ColMax(col("wind_speed_10m")),
         cloud_cover_mean |-> Mean(col("cloud_cover")),
         latitude |-> group[1].latitude,
         longitude |-> group[1].longitude]

aggregate_daily_stats(frame) ==
    LET n == Len(frame.rows)
        key(i) == <<frame.rows[i].city, DateOf(frame.rows[i].time)>>
        keys == SortedKeys({key(i) : i \in 1..n})
        group(k) == Select(frame.rows, [i \in 1..n |-> key(i) = k])
    IN  IF "time" \notin frame.cols THEN Raise("KeyError")
        ELSE IF ({"city"} \cup AggregatedColumns(frame.cols)) \ frame.cols # {}
        THEN Raise("KeyError")
        ELSE IF AggregatedWidth(frame.cols) # Len(DailyColumnNames)
        THEN Raise("ValueError")
        ELSE Ok([cols |-> {DailyColumnNames[j] : j \in 1..Len(DailyColumnNames)},
                 rows |-> [g \in 1..Len(keys) |-> DailyRow(keys[g], group(keys[g]))]])

----------------------------------------------------------------------------
(* get_summary_statistics                                                  *)

\* df.empty: no rows or no columns
IsEmpty(frame) == frame.cols = {} \/ frame.rows = <<>>

\* 0.0 as a mean
ZeroFrac == [num |-> 0, den |-> 1]

\* Series.nunique()
NUnique(xs) == Cardinality({xs[i] : i \in 1..Len(xs)})

\* the number of rows of a table that has the anomaly column
AnomalyCountOfRows(frame) ==
    IF "temp_anomaly" \in frame.cols THEN Len(frame.rows) ELSE 0

\* df.get('temp_anomaly', pd.Series([False])).sum(): the number of flagged rows
AnomalyCount(frame) ==
    IF "temp_anomaly" \in frame.cols
    THEN Cardinality({i \in 1..Len(frame.rows) : frame.rows[i].temp_anomaly})
    ELSE 0

\* the statistics computed without the test for an empty table
get_summary_statistics_unguarded(frame) ==
    IF {"city", "temperature_2m", "relative_humidity_2m", "precipitation",
        "wind_speed_10m"} \ frame.cols # {}
    THEN Raise("KeyError")
    ELSE Ok([total_cities |-> NUnique(Column(frame, "city")),
             total_records |-> Len(frame.rows),
             avg_temperature |-> Mean(Column(frame, "temperature_2m")),
             max_temperature |-> ColMax(Column(frame, "temperature_2m")),
             min_temperature |-> ColMin(Column(frame, "temperature_2m")),
             avg_humidity |-> Mean(Column(frame, "relative_humidity_2m")),
             total_precipitation |-> ColSum(Column(frame, "precipitation")),
             max_wind_speed |-> ColMax(Column(frame, "wind_speed_10m")),
             anomalies_detected |-> AnomalyCount(frame)])

get_summary_statistics(frame) ==
    IF IsEmpty(frame)
    THEN Ok([total_cities |-> 0, total_records |-> 0,
             avg_temperature |-> ZeroFrac, max_temperature |-> 0,
             min_temperature |-> 0, avg_humidity |-> ZeroFrac,
             total_precipitation |-> 0, max_wind_speed |-> 0,
             anomalies_detected |-> 0])
    ELSE IF {"city", "temperature_2m", "relative_humidity_2m", "precipitation",
             "wind_speed_10m"} \ frame.cols # {}
    THEN Raise("KeyError")
    ELSE Ok([total_cities |-> NUnique(Column(frame, "city")),
             total_records |-> Len(frame.rows),
             avg_temperature |-> Mean(Column(frame, "temperature_2m")),
             max_temperature |-> ColMax(Column(frame, "temperature_2m")),
             min_temperature |-> ColMin(Column(frame, "temperature_2m")),
             avg_humidity |-> Mean(Column(frame, "relative_humidity_2m")),
             total_precipitation |-> ColSum(Column(frame, "precipitation")),
             max_wind_speed |-> ColMax(Column(frame, "wind_speed_10m")),
             anomalies_detected |-> AnomalyCount(frame)])

----------------------------------------------------------------------------
(* get_regional_statistics                                                 *)

\* df['region'] == region: a missing value equals nothing, itself included
RegionMask(rows, region) ==
    [i \in 1..Len(rows) |-> region # NaN /\ rows[i].region # NaN /\ rows[i].region = region]

\* the statistics of one region: those of the rows that the mask selects
RegionEntry(frame, region) ==
    LET region_df == [rows |-> Select(frame.rows, RegionMask(frame.rows, region))]
    IN  [cities |-> NUnique(Column(region_df, "city")),
         avg_temperature |-> Mean(Column(region_df, "temperature_2m")),
         max_temperature |-> ColMax(Column(region_df, "temperature_2m")),
         min_temperature |-> ColMin(Column(region_df, "temperature_2m")),
         avg_humidity |-> Mean(Column(region_df, "relative_humidity_2m")),
         total_precipitation |-> ColSum(Column(region_df, "precipitation")),
         max_wind_speed |-> ColMax(Column(region_df, "wind_speed_10m"))]

\* the mapping from the values of df['region'].unique(), the missing value
\* among them if some row has no region, to their statistics
get_regional_statistics(frame) ==
    IF IsEmpty(frame) \/ "region" \notin frame.cols THEN Ok(<<>>)
    ELSE IF {"city", "temperature_2m", "relative_humidity_2m", "precipitation",
             "wind_speed_10m"} \ frame.cols # {}
    THEN Raise("KeyError")
    ELSE LET regions == Unique(Column(frame, "region"))
         IN  Ok([region \in {regions[k] : k \in 1..Len(regions)} |->
                    RegionEntry(frame, region)])

----------------------------------------------------------------------------
(* get_city_rankings                                                       *)

\* the length of a ranking
RankingSize == 10

\* daily_df.groupby('city').last().reset_index(): for each city, in ascending
\* order of the cities, its last row in table order
Latest(frame) ==
    LET n == Len(frame.rows)
        cities == Ascending({frame.rows[i].city : i \in 1..n})
        last_row(c) == CHOOSE i \in 1..n :
                          /\ frame.rows[i].city = c
                          /\ \A j \in 1..n : frame.rows[j].city = c => j <= i
    IN  [k \in 1..Len(cities) |-> frame.rows[last_row(cities[k])]]

\* the columns of a daily table that hold means, which are fractions
MeanColumns == {"temp_mean", "humidity_mean", "cloud_cover_mean"}

\* the metric of a row as a fraction, whether a mean or a measurement
AsFrac(row, col) ==
    IF col \in MeanColumns THEN row[col] ELSE [num |-> row[col], den |-> 1]

\* a is ahead of b in a ranking of the given direction
Ahead(a, b, direction) ==
    IF direction = "largest" THEN a.num * b.den > b.num * a.den
    ELSE a.num * b.den < b.num * a.den

\* the positions of the first n of `keys` in the given direction: the best of
\* the remaining ones again and again, of equal ones that of least position
RECURSIVE NSelect(_, _, _, _)
NSelect(keys, remaining, n, direction) ==
    IF n = 0 \/ remaining = {} THEN <<>>
    ELSE LET best == CHOOSE k \in remaining :
                        \A j \in remaining \ {k} :
                           \/ Ahead(keys[k], keys[j], direction)
                           \/ ~Ahead(keys[j], keys[k], direction) /\ k < j
         IN  <<best>> \o NSelect(keys, remaining \ {best}, n - 1, direction)

\* latest.nlargest(10, col)[['city', col]].reset_index(drop=True), or nsmallest
Ranking(latest, col, direction) ==
    LET keys == [k \in 1..Len(latest) |-> AsFrac(latest[k], col)]
        picked == NSelect(keys, 1..Len(latest), RankingSize, direction)
    IN  [k \in 1..Len(picked) |->
            [city |-> latest[picked[k]].city, value |-> latest[picked[k]][col]]]

get_city_rankings(daily_df) ==
    IF IsEmpty(daily_df) THEN Ok(<<>>)
    ELSE IF {"city", "temp_max", "temp_min", "precipitation_total", "wind_max",
             "humidity_mean"} \ daily_df.cols # {}
    THEN Raise("KeyError")
    ELSE LET latest == Latest(daily_df)
         IN  Ok([hottest |-> Ranking(latest, "temp_max", "largest"),
                 coldest |-> Ranking(latest, "temp_min", "smallest"),
                 rainiest |-> Ranking(latest, "precipitation_total", "largest"),
                 windiest |-> Ranking(latest, "wind_max", "largest"),
                 most_humid |-> Ranking(latest, "humidity_mean", "largest")])

----------------------------------------------------------------------------
(* detect_weather_patterns                                                 *)

\* the rows of a city left in table order
CityFrameUnsorted(frame, city) == Select(frame.rows, CityMask(frame.rows, city))

\* df[df['city'] == city].sort_values('time')
CityFrame(frame, city) == SortByTime(Select(frame.rows, CityMask(frame.rows, city)))

\* (heat_wave != heat_wave.shift()).cumsum(): the number of changes of value up
\* to row i, the first row counting as a change
HeatGroup(heat_wave, i) ==
    Cardinality({j \in 1..i : j = 1 \/ heat_wave[j] # heat_wave[j - 1]})

\* city_df[city_df['heat_wave']].groupby('heat_group').size(), as a function
\* from the groups of hot rows to their sizes
HeatSequences(heat_wave) ==
    LET n == Len(heat_wave)
        groups == {HeatGroup(heat_wave, i) : i \in {j \in 1..n : heat_wave[j]}}
    IN  [g \in groups |->
            Cardinality({i \in 1..n : heat_wave[i] /\ HeatGroup(heat_wave, i) = g})]

\* the heat wave finding of one city: <<>> or one finding
HeatWaveOf(frame, city) ==
    LET city_df == CityFrame(frame, city)
        heat_wave == [i \in 1..Len(city_df) |->
                        Exceeds(city_df[i].temperature_2m, HeatThreshold)]
        heat_sequences == HeatSequences(heat_wave)
        sizes == DOMAIN heat_sequences
        hot == Select(city_df, heat_wave)
    IN  IF \E g \in sizes : heat_sequences[g] >= HeatMinRun
        THEN <<[city |-> city,
                duration_hours |->
                    CHOOSE d \in {heat_sequences[g] : g \in sizes} :
                        \A g \in sizes : heat_sequences[g] <= d,
                max_temp |-> SeqMax([k \in 1..Len(hot) |-> hot[k].temperature_2m])]>>
        ELSE <<>>

\* the change of the first cold row
FirstDrop(changes) == changes[1]

\* cold_front['temp_change_24h'].min()
ColdestDrop(changes) == SeqMin(changes)

\* the cold front finding of one city: <<>> or one finding
ColdFrontOf(frame, city) ==
    LET city_df == CityFrame(frame, city)
        n == Len(city_df)
        \* diff(periods=24) is missing in the first 24 rows, and where either
        \* temperature is
        has_change == [i \in 1..n |->
                         /\ i > ColdLag
                         /\ city_df[i].temperature_2m # Missing
                         /\ city_df[i - ColdLag].temperature_2m # Missing]
        temp_change_24h(i) == city_df[i].temperature_2m - city_df[i - ColdLag].temperature_2m
        cold_mask == [i \in 1..n |-> has_change[i] /\ temp_change_24h(i) < ColdDrop]
        at == MaskPositions(cold_mask, n)
    IN  IF at # <<>>
        THEN <<[city |-> city,
                temp_drop |-> ColdestDrop([k \in 1..Len(at) |-> temp_change_24h(at[k])]),
                time |-> city_df[at[1]].time]>>
        ELSE <<>>

\* Series.rolling(window).sum(): missing until the window holds `window` values
\* (min_periods defaults to the window); <<sum, number of observations>>
RollingSum(xs, window) == [i \in 1..Len(xs) |-> RollAcc(xs, window, i)]

\* the sum of the first wet window
FirstRain(sums) == sums[1]

\* heavy_rain['precip_3h'].max()
RainPeak(sums) == SeqMax(sums)

\* the heavy rain finding of one city: <<>> or one finding
HeavyRainOf(frame, city) ==
    LET city_df == CityFrame(frame, city)
        n == Len(city_df)
        precip_3h == RollingSum([i \in 1..n |-> city_df[i].precipitation], RainWindow)
        rain_mask == [i \in 1..n |->
                        precip_3h[i][2] >= RainWindow /\ precip_3h[i][1] > RainThreshold]
        at == MaskPositions(rain_mask, n)
    IN  IF at # <<>>
        THEN <<[city |-> city,
                precipitation_3h |-> RainPeak([k \in 1..Len(at) |-> precip_3h[at[k]][1]]),
                time |-> city_df[at[1]].time]>>
        ELSE <<>>

\* one of the three loops over df['city'].unique(): the findings of the cities
\* in that order (which: "heat", "cold" or "rain")
RECURSIVE PatternLoop(_, _, _)
PatternLoop(frame, cities, which) ==
    IF cities = <<>> THEN <<>>
    ELSE LET city == cities[Len(cities)]
         IN  PatternLoop(frame, SubSeq(cities, 1, Len(cities) - 1), which) \o
               (CASE which = "heat" -> HeatWaveOf(frame, city)
                  [] which = "cold" -> ColdFrontOf(frame, city)
                  [] which = "rain" -> HeavyRainOf(frame, city))

detect_weather_patterns(frame) ==
    IF frame.cols = {} \/ frame.rows = <<>>
    THEN Ok([heat_waves |-> <<>>, cold_fronts |-> <<>>, heavy_rain_events |-> <<>>])
    ELSE IF {"city", "time", "temperature_2m", "precipitation"} \ frame.cols # {}
    THEN Raise("KeyError")
    ELSE LET cities == Unique(Column(frame, "city"))
         IN  Ok([heat_waves |-> PatternLoop(frame, cities, "heat"),
                 cold_fronts |-> PatternLoop(frame, cities, "cold"),
                 heavy_rain_events |-> PatternLoop(frame, cities, "rain")])

----------------------------------------------------------------------------
(* The dashboard: consolidate_alerts                                       *)

\* the types whose groups are consolidated to their peak
MagnitudeTypes == {"high_temperature", "high_wind", "heavy_precipitation"}

\* severity_order
Severity(type) ==
    CASE type = "high_temperature" -> 0
      [] type = "high_wind" -> 1
      [] type = "heavy_precipitation" -> 2
      [] type = "low_temperature" -> 3

\* the place of a type name in the order of strings, in which groupby sorts
TypeNameRank(type) ==
    CASE type = "heavy_precipitation" -> 0
      [] type = "high_temperature" -> 1
      [] type = "high_wind" -> 2
      [] type = "low_temperature" -> 3

\* the group key of an alert: its city, type and calendar date
GroupKey(alert) == <<alert.city, alert.type, DateOf(alert.time)>>

\* the order of the group keys: by city, then by type name, then by date
GroupKeyLess(a, b) ==
    \/ a[1] < b[1]
    \/ a[1] = b[1] /\ TypeNameRank(a[2]) < TypeNameRank(b[2])
    \/ a[1] = b[1] /\ a[2] = b[2] /\ a[3] < b[3]

\* the group keys in ascending order (groupby sorts its keys)
RECURSIVE SortedGroupKeys(_)
SortedGroupKeys(keys) ==
    IF keys = {} THEN <<>>
    ELSE LET least == CHOOSE k \in keys : \A o \in keys \ {k} : GroupKeyLess(k, o)
         IN  <<least>> \o SortedGroupKeys(keys \ {least})

\* the alerts of a group, in the order of the list
GroupOf(alerts, key) ==
    Select(alerts, [i \in 1..Len(alerts) |-> GroupKey(alerts[i]) = key])

\* a choice of the first alert of the group whatever its value
PeakOfFirst(group) == 1

\* group["value"].idxmax(): the first alert of the group that has the
\* greatest value
PeakOf(group) ==
    CHOOSE i \in 1..Len(group) :
        /\ \A j \in 1..Len(group) : group[j].value <= group[i].value
        /\ \A j \in 1..(i - 1) : group[j].value < group[i].value

\* the record of one group: for a magnitude type the greatest value, the time
\* of the alert that has it and the first message, extended by the peak and
\* the count if the group has several alerts; for another type the time,
\* value and message of the first alert; both with the severity of the type,
\* the column added for the final sort
Consolidated(key, group) ==
    LET count == Len(group)
        peak == group[PeakOf(group)]
    IN  IF key[2] \in MagnitudeTypes
        THEN [type |-> key[2], city |-> key[1], date |-> key[3],
              time |-> peak.time, value |-> peak.value, count |-> count,
              severity |-> Severity(key[2]),
              message |-> IF count > 1
                          THEN group[1].message \o <<"pico", peak.value, count>>
                          ELSE group[1].message]
        ELSE [type |-> key[2], city |-> key[1], date |-> key[3],
              time |-> group[1].time, value |-> group[1].value, count |-> count,
              severity |-> Severity(key[2]),
              message |-> group[1].message]

\* sort_values(["date", "severity"], ascending=[False, True]): later dates
\* first, then lower severities, records that agree on both in the order
\* they had
RECURSIVE SortBySeverity(_, _)
SortBySeverity(records, remaining) ==
    IF remaining = {} THEN <<>>
    ELSE LET before(k, j) ==
                 \/ records[k].date > records[j].date
                 \/ records[k].date = records[j].date
                      /\ records[k].severity < records[j].severity
                 \/ records[k].date = records[j].date
                      /\ records[k].severity = records[j].severity /\ k < j
             first == CHOOSE k \in remaining : \A j \in remaining \ {k} : before(k, j)
         IN  <<records[first]>> \o SortBySeverity(records, remaining \ {first})

consolidate_alerts(alerts) ==
    IF alerts = <<>> THEN <<>>
    ELSE LET keys == SortedGroupKeys({GroupKey(alerts[i]) : i \in 1..Len(alerts)})
             consolidated ==
                 [k \in 1..Len(keys) |-> Consolidated(keys[k], GroupOf(alerts, keys[k]))]
         IN  SortBySeverity(consolidated, 1..Len(keys))

----------------------------------------------------------------------------
(* The processor: construction and calls                                   *)

\* WeatherDataProcessor(config): the constructor keeps the three settings
Construct(config) ==
    /\ ma_window = config.processing.moving_average_window
    /\ anomaly_threshold = config.processing.anomaly_threshold
    /\ alert_config = config.alerts

\* WeatherDataProcessor(config), for any dictionary: the three subscripts of
\* __init__ raise KeyError for a key that is not there, and nothing looks at
\* the values
WeatherDataProcessor(config) ==
    IF \/ "processing" \notin DOMAIN config
       \/ "moving_average_window" \notin DOMAIN config.processing
       \/ "anomaly_threshold" \notin DOMAIN config.processing
       \/ "alerts" \notin DOMAIN config
    THEN Raise("KeyError")
    ELSE Ok([ma_window |-> config.processing.moving_average_window,
             anomaly_threshold |-> config.processing.anomaly_threshold,
             alert_config |-> config.alerts])

\* the attributes of an object whose constructor raised: there is none, and
\* no method is ever called on it
NoSelf == [ma_window |-> 0, anomaly_threshold |-> NaNFrac, alert_config |-> <<>>]

Settings == <<ma_window, anomaly_threshold, alert_config>>

\* the attributes of the processor
Self ==
    [ma_window |-> ma_window, anomaly_threshold |-> anomaly_threshold,
     alert_config |-> alert_config]

\* a processor that narrows its window once it has smoothed a table
SelfAfterAdapting(self, name) ==
    IF name = "calculate_moving_averages" /\ self.ma_window > 1
    THEN [self EXCEPT !.ma_window = 1]
    ELSE self

\* the attributes after a call of the method `name`: no method assigns to an
\* attribute of self
SelfAfter(self, name) == self

\* a table that the caller and the method share: what the method did to its
\* working table is done to the caller's
CallersTableShared(frame, working) == working

\* the caller's table after a call: the methods that assign columns do it to
\* `df = df.copy()` or to a selection of rows, which are tables of their own,
\* so the caller's table is as it was whatever became of the working table
CallersTable(frame, working) == frame

\* the working table of a call that returned it, or that raised before it
\* assigned anything to it
WorkingTable(frame, out) == IF out.kind = "ok" THEN out.value ELSE frame

\* the working table of aggregate_daily_stats: df['date'] = df['time'].dt.date
DatedTable(frame) ==
    IF "time" \notin frame.cols THEN frame
    ELSE [cols |-> frame.cols \cup {"date"},
          rows |-> [i \in 1..Len(frame.rows) |->
                      [c \in frame.cols \cup {"date"} |->
                         IF c = "date" THEN DateOf(frame.rows[i].time)
                         ELSE frame.rows[i][c]]]]

\* there is a processor: the constructor did not raise
Constructed == ~(op = "__init__" /\ result.kind = "raise")

\* a call of the method `name` on the caller's table, which returns (or
\* raises) `out` and leaves its working table as `working`
Call(name, out, working) ==
    /\ Constructed
    /\ op' = name
    /\ result' = out
    /\ df' = CallersTable(df, working)
    /\ ma_window' = SelfAfter(Self, name).ma_window
    /\ anomaly_threshold' = SelfAfter(Self, name).anomaly_threshold
    /\ alert_config' = SelfAfter(Self, name).alert_config
    /\ UNCHANGED <<raw_data, fetcher, dag>>

\* df = processor.raw_to_dataframe(raw_data), as the dashboard and the
\* scheduled pipeline call it: the caller's table becomes the returned one
RawToDataframe ==
    /\ Constructed
    /\ op' = "raw_to_dataframe"
    /\ result' = raw_to_dataframe(raw_data)
    /\ df' = IF result'.kind = "ok" THEN result'.value ELSE df
    /\ ma_window' = SelfAfter(Self, "raw_to_dataframe").ma_window
    /\ anomaly_threshold' = SelfAfter(Self, "raw_to_dataframe").anomaly_threshold
    /\ alert_config' = SelfAfter(Self, "raw_to_dataframe").alert_config
    /\ UNCHANGED <<raw_data, fetcher, dag>>

CalculateMovingAverages ==
    Call("calculate_moving_averages", calculate_moving_averages(df, ma_window),
         WorkingTable(df, result'))

DetectAnomalies ==
    Call("detect_anomalies", detect_anomalies(df, anomaly_threshold),
         WorkingTable(df, result'))

\* generate_alerts only reads the table
GenerateAlerts ==
    Call("generate_alerts", generate_alerts(df, alert_config), df)

AggregateDailyStats ==
    Call("aggregate_daily_stats", aggregate_daily_stats(df), DatedTable(df))

\* detect_weather_patterns assigns columns to city_df, the sorted rows of one
\* city, a table of its own
DetectWeatherPatterns ==
    Call("detect_weather_patterns", detect_weather_patterns(df), df)

GetSummaryStatistics ==
    Call("get_summary_statistics", get_summary_statistics(df), df)

GetRegionalStatistics ==
    Call("get_regional_statistics", get_regional_statistics(df), df)

\* processor.get_city_rankings(daily_df): the caller's table is a daily one
GetCityRankings ==
    Call("get_city_rankings", get_city_rankings(df), df)

Next ==
    \/ RawToDataframe
    \/ CalculateMovingAverages
    \/ DetectAnomalies
    \/ GenerateAlerts
    \/ AggregateDailyStats
    \/ DetectWeatherPatterns
    \/ GetSummaryStatistics
    \/ GetRegionalStatistics
    \/ GetCityRankings

\* the dashboard consolidates the alerts that generate_alerts has just
\* returned
ConsolidateAlerts ==
    /\ op = "generate_alerts"
    /\ result.kind = "ok"
    /\ op' = "consolidate_alerts"
    /\ result' = Ok(consolidate_alerts(result.value))
    /\ UNCHANGED <<raw_data, df, Settings, fetcher, dag>>

DashboardNext ==
    \/ GenerateAlerts
    \/ ConsolidateAlerts

----------------------------------------------------------------------------
(* Inputs: configurations, observation tables and payload batches          *)

MaxWindow == 3          \* moving_average_window ranges over 1..MaxWindow

MaxAlertRows == 2       \* rows of a table of the alert family

MaxRows == 3            \* rows of a two-city table of the series families

MaxSeries == 5          \* rows of a one-city table of the series families

MaxTail == 3            \* rows after the first ColdLag rows of a long series

MaxDailyRows == 3       \* rows of a table of the daily family

MaxSummaryRows == 3     \* rows of a table of the summary family

MaxMissingRows == 2     \* rows of a table with missing measurements

MaxRankCities == 11     \* cities of a table of the ranking family

MaxPayloads == 2        \* payloads of a batch

Cities == {1, 2}

\* the configuration dictionary the constructor reads
MkConfig(window, threshold, t_hi, t_lo, w_hi, p_hi) ==
    [processing |-> [moving_average_window |-> window,
                     anomaly_threshold |-> threshold],
     alerts |-> [temperature |-> [high_threshold |-> t_hi, low_threshold |-> t_lo],
                 wind_speed |-> [high_threshold |-> w_hi],
                 precipitation |-> [high_threshold |-> p_hi]]]

\* the configuration of the test suite: window 3, threshold 2.0, 35/5/60/50
TestConfig == MkConfig(3, [num |-> 2, den |-> 1], 35, 5, 60, 50)

\* another set of alert thresholds
OtherAlertConfig == MkConfig(3, [num |-> 2, den |-> 1], 34, 0, 64, 54)

\* windows 1..max_window, with anomaly thresholds 0.5, 1.0 and 2.0
SeriesConfigs(max_window) ==
    {MkConfig(w, CASE w = 1 -> [num |-> 1, den |-> 2]
                   [] w = 2 -> [num |-> 1, den |-> 1]
                   [] OTHER -> [num |-> 2, den |-> 1],
              35, 5, 60, 50) : w \in 1..max_window}

MaxConfigRows == 2      \* rows of a table handed to a processor of any configuration

\* a dictionary without the key `key`
Without(dict, key) == [k \in DOMAIN dict \ {key} |-> dict[k]]

\* configurations that lack a setting
IncompleteConfigs ==
    {[TestConfig EXCEPT !.processing = Without(@, "moving_average_window")],
     [TestConfig EXCEPT !.processing = Without(@, "anomaly_threshold")],
     Without(TestConfig, "alerts"),
     Without(TestConfig, "processing"),
     [TestConfig EXCEPT !.alerts = Without(@, "temperature")],
     [TestConfig EXCEPT !.alerts = Without(@, "precipitation")],
     [TestConfig EXCEPT !.alerts.temperature = Without(@, "low_threshold")],
     [TestConfig EXCEPT !.alerts.wind_speed = Without(@, "high_threshold")]}

\* configurations with a window below 1 or a multiplier that is not positive
InvalidConfigs ==
    {[TestConfig EXCEPT !.processing.moving_average_window = w] : w \in {0, -1}}
    \cup {[TestConfig EXCEPT !.processing.anomaly_threshold = [num |-> t, den |-> 1]] :
             t \in {0, -1}}

ConfigCases == {TestConfig} \cup IncompleteConfigs \cup InvalidConfigs

BaseCols ==
    {"time", "city", "latitude", "longitude", "temperature_2m",
     "relative_humidity_2m", "precipitation", "wind_speed_10m", "cloud_cover"}

\* one observation row
Obs(city, time, temp, hum, precip, wind, cloud, lat, lon) ==
    [time |-> time, city |-> city, latitude |-> lat, longitude |-> lon,
     temperature_2m |-> temp, relative_humidity_2m |-> hum,
     precipitation |-> precip, wind_speed_10m |-> wind, cloud_cover |-> cloud]

\* a row whose fields other than the ones given are unremarkable
PlainObs(city, time, temp, precip, wind) ==
    Obs(city, time, temp, 60, precip, wind, 30, -23, -46)

Frame(rows) == [cols |-> BaseCols, rows |-> rows]

SeqsUpTo(S, n) == UNION {[1..k -> S] : k \in 0..n}

\* the time of row i of n: the rows in chronological order ("asc"), in reverse
\* ("desc"), or in chronological order but for the earliest row, which is last
TimeAt(layout, i, n) ==
    CASE layout = "asc" -> i - 1
      [] layout = "desc" -> n - i
      [] OTHER -> i % n

Layouts == {"asc", "desc", "rot"}

\* alert family: temperatures, winds and precipitations on both sides of, and
\* equal to, the thresholds of TestConfig and OtherAlertConfig
AlertTables(max_rows) ==
    {Frame([i \in 1..Len(q) |-> PlainObs(q[i][1], i - 1, q[i][2], q[i][3], q[i][4])]) :
        q \in SeqsUpTo(Cities \X {0, 35, 40} \X {50, 55} \X {60, 65}, max_rows)}

MaxDashRows == 3        \* rows of a table of the dashboard family

\* the temperature, precipitation and wind speed of a row of the dashboard
\* family: on either side of the thresholds of TestConfig, with two
\* different values beyond each of them and one row that is no alert
DashReadings ==
    {<<-1, 0, 50>>, <<0, 0, 50>>, <<36, 0, 65>>, <<20, 0, 50>>, <<40, 55, 70>>,
     <<20, 60, 65>>}

\* dashboard family: up to max_rows rows of two cities, twelve hours apart
\* (so two rows to a date) in chronological, reverse or rotated order
DashTables(max_rows) ==
    {Frame([i \in 1..Len(q) |->
              PlainObs(q[i][1], 12 * TimeAt(layout, i, Len(q)),
                       q[i][2][1], q[i][2][2], q[i][2][3])]) :
        q \in SeqsUpTo(Cities \X DashReadings, max_rows), layout \in Layouts}

\* tables with missing measurements: up to max_rows rows whose temperature,
\* precipitation and wind speed are each missing or a value
MissingTables(max_rows) ==
    {Frame([i \in 1..Len(q) |-> PlainObs(q[i][1], i - 1, q[i][2], q[i][3], q[i][4])]) :
        q \in SeqsUpTo(Cities \X {Missing, 0, 40} \X {Missing, 55} \X {Missing, 65},
                       max_rows)}

\* the shapes of a series table, the city of each row: up to max_rows rows of
\* two cities in any order
MixedShapes(max_rows) == SeqsUpTo(Cities, max_rows)

\* a longer series, of one city: up to max_series rows
SingleShapes(max_series) == {[i \in 1..n |-> 1] : n \in 1..max_series}

SeriesShapes(max_rows, max_series) ==
    MixedShapes(max_rows) \cup SingleShapes(max_series)

\* temperature family: each row 30, 36 or 40 degrees
TempTables(shapes) ==
    UNION {{Frame([i \in 1..Len(sh) |->
                     PlainObs(sh[i], TimeAt(layout, i, Len(sh)), v[i], 0, 10)]) :
              v \in [1..Len(sh) -> {30, 36, 40}], layout \in Layouts} :
           sh \in shapes}

\* the table of the anomaly test: 20..26 and 100 degrees in one city
AnomalyTestTable ==
    Frame([i \in 1..8 |->
             Obs(1, i - 1, IF i = 8 THEN 100 ELSE 19 + i, 59 + i, 0, 9 + i, 29 + i,
                 -23, -46)])

\* precipitation family: each row 0, 10 or 11 mm
RainTables(max_rows, max_series) ==
    UNION {{Frame([i \in 1..Len(sh) |->
                     PlainObs(sh[i], TimeAt(layout, i, Len(sh)), 20, v[i], 10)]) :
              v \in [1..Len(sh) -> {0, 10, 11}], layout \in Layouts} :
           sh \in SeriesShapes(max_rows, max_series)}

\* long family: city 1 with ColdLag..ColdLag+max_tail hourly rows at 20
\* degrees but for its first row (20, 30 or 32), its second (20 or 32) and the
\* rows after the first ColdLag (19 or 20); a row of city 2 may go between them
LongTables(max_tail) ==
    UNION {{LET n == ColdLag + Len(tail)
                temp(i) == IF i <= 2 THEN head[i]
                           ELSE IF i > ColdLag THEN tail[i - ColdLag] ELSE 20
                long == [i \in 1..n |->
                           PlainObs(1, TimeAt(layout, i, n), temp(i), 0, 10)]
                short == <<PlainObs(2, 0, 20, 0, 10)>>
            IN  Frame(CASE where = "alone" -> long
                        [] OTHER -> SubSeq(long, 1, 2) \o short \o SubSeq(long, 3, n)) :
              where \in {"alone", "between"}, layout \in Layouts} :
           head \in {20, 30, 32} \X {20, 32}, tail \in SeqsUpTo({19, 20}, max_tail)}

\* the interleavings of two series of k rows each: the city of each row
PairShapes(k) ==
    {sh \in [1..(2 * k) -> Cities] : Cardinality({i \in 1..(2 * k) : sh[i] = 1}) = k}

\* the number of rows of sh up to row i that are of the city of row i
RankInCity(sh, i) == Cardinality({j \in 1..i : sh[j] = sh[i]})

\* pair family: two cities of three rows each, in any interleaving; each city
\* is hot throughout (36, 40, 36) or not (36, 30, 36), and wet throughout
\* (11, 11, 11) or not (10, 10, 10)
PairTables ==
    UNION {{Frame([i \in 1..6 |->
                     LET k == RankInCity(sh, i)
                         hot == <<36, IF heat[sh[i]] THEN 40 ELSE 30, 36>>
                         wet == IF rain[sh[i]] THEN 11 ELSE 10
                     IN  PlainObs(sh[i], TimeAt(layout, i, 6), hot[k], wet, 10)]) :
              heat \in [Cities -> BOOLEAN], rain \in [Cities -> BOOLEAN],
              layout \in Layouts} :
           sh \in PairShapes(3)}

\* long pair family: two cities of ColdLag + 1 rows each, one after the other
\* or alternating; a city's last row is 12 degrees colder than its first or not
LongPairTables ==
    {Frame([i \in 1..(2 * (ColdLag + 1)) |->
              LET n == ColdLag + 1
                  c == CASE order = "12" -> IF i <= n THEN 1 ELSE 2
                         [] order = "21" -> IF i <= n THEN 2 ELSE 1
                         [] OTHER -> 1 + (i % 2)
                  k == CASE order = "alt" -> (i + 1) \div 2
                         [] OTHER -> IF i <= n THEN i ELSE i - n
              IN  PlainObs(c, k - 1,
                           IF k = 1 /\ cold[c] THEN 32 ELSE 20, 0, 10)]) :
        order \in {"12", "21", "alt"}, cold \in [Cities -> BOOLEAN]}

\* readings of the daily family: temperature, humidity, precipitation, wind,
\* cloud cover, latitude, longitude (the temperatures of the daily test)
Readings ==
    {<<20, 60, 0, 10, 30, -23, -46>>, <<25, 65, 1, 15, 40, -23, -46>>,
     <<30, 55, 2, 5, 50, -22, -43>>}

\* daily family: city 1 at hours 5, 6 and 23 of day 0 and hour 0 of day 1 with
\* any of the readings, city 2 at hour 5 of day 0 and hour 0 of day 1
DailyRowKinds ==
    {Obs(1, t, r[1], r[2], r[3], r[4], r[5], r[6], r[7]) :
        t \in {5, 6, 23, 24}, r \in Readings}
    \cup {Obs(2, t, 25, 65, 1, 15, 40, -23, -46) : t \in {5, 24}}

\* (city, time) is unique in a table
UniqueTimes(rows) ==
    \A i, j \in 1..Len(rows) :
        i # j => <<rows[i].city, rows[i].time>> # <<rows[j].city, rows[j].time>>

DailyTables(max_rows) ==
    {Frame(rows) : rows \in {q \in SeqsUpTo(DailyRowKinds, max_rows) : UniqueTimes(q)}}

\* the hourly block of a payload: parallel arrays, one entry per sample
Hourly(samples) ==
    [time |-> [i \in 1..Len(samples) |-> samples[i][1]],
     temperature_2m |-> [i \in 1..Len(samples) |-> samples[i][2]],
     relative_humidity_2m |-> [i \in 1..Len(samples) |-> samples[i][3]],
     precipitation |-> [i \in 1..Len(samples) |-> samples[i][4]],
     wind_speed_10m |-> [i \in 1..Len(samples) |-> samples[i][5]],
     cloud_cover |-> [i \in 1..Len(samples) |-> samples[i][6]]]

\* hourly series of 0, 1 and 2 samples: <<time string, temperature, humidity,
\* precipitation, wind, cloud cover>>
SampleSeries1 == << <<<<0, 23>>, 40, 60, 0, 65, 30>> >>

SampleSeries2 == << <<<<0, 23>>, 25, 65, 1, 15, 40>>, <<<<1, 0>>, 30, 70, 55, 20, 50>> >>

SampleSeries == {<<>>, SampleSeries1, SampleSeries2}

\* the payloads of the fetcher: with and without state and region
Payloads ==
    {[city_name |-> c, lat |-> g[1], lon |-> g[2], hourly |-> Hourly(ss)] :
        c \in Cities, g \in {<<-23, -46>>, <<-8, -35>>}, ss \in SampleSeries}
    \cup
    {[city_name |-> c, lat |-> g[1], lon |-> g[2], hourly |-> Hourly(ss),
      state |-> "SP", region |-> "Sudeste"] :
        c \in Cities, g \in {<<-23, -46>>, <<-8, -35>>}, ss \in SampleSeries}

Batches(max_payloads) == SeqsUpTo(Payloads, max_payloads)

\* the configuration of the summary family: anomaly threshold 0.5
SummaryConfig == MkConfig(3, [num |-> 1, den |-> 2], 35, 5, 60, 50)

\* the regions of the two cities: the same, different, or missing for one city
RegionMaps ==
    {<<"Sudeste", "Sudeste">>, <<"Sudeste", "Nordeste">>, <<"Sudeste", NaN>>,
     <<NaN, "Nordeste">>}

\* the table with a region column, the region of each row that of its city
WithRegion(frame, region_of) ==
    [cols |-> frame.cols \cup {"region"},
     rows |-> [i \in 1..Len(frame.rows) |->
                 [c \in frame.cols \cup {"region"} |->
                    IF c = "region" THEN region_of[frame.rows[i].city]
                    ELSE frame.rows[i][c]]]]

\* summary family: up to max_rows rows, each of either city with any of the
\* readings; without or with a region column; as loaded, or enriched by
\* detect_anomalies as the dashboard does before it summarises
SummaryTables(max_rows) ==
    LET plain == {Frame([i \in 1..Len(q) |->
                           Obs(q[i][1], i - 1, q[i][2][1], q[i][2][2], q[i][2][3],
                               q[i][2][4], q[i][2][5], q[i][2][6], q[i][2][7])]) :
                    q \in SeqsUpTo(Cities \X Readings, max_rows)}
        base == plain \cup {WithRegion(t, m) : t \in plain, m \in RegionMaps}
    IN  base \cup {detect_anomalies(t, SummaryConfig.processing.anomaly_threshold).value :
                     t \in base}

\* one row of a daily table
DailyObs(city, date, v) ==
    [city |-> city, date |-> date, temp_mean |-> Frac(40 + 2 * v, 2),
     temp_min |-> 10 + v, temp_max |-> 30 + v, humidity_mean |-> Frac(100 + v, 2),
     precipitation_total |-> v, wind_max |-> 5 + v,
     cloud_cover_mean |-> Frac(30, 1), latitude |-> -23, longitude |-> -46]

\* how the metrics vary with the city: rising, falling, all equal, equal in
\* pairs of neighbours, or equal every third city
RankPatterns == {"up", "down", "flat", "pairs", "mod"}

\* the metric offset of a city on a date; on the later date every other city
\* is 3 higher
RankValue(pattern, city, date) ==
    (CASE pattern = "up" -> city
       [] pattern = "down" -> 20 - city
       [] pattern = "flat" -> 7
       [] pattern = "pairs" -> city \div 2
       [] OTHER -> city % 3)
    + 3 * date * (city % 2)

\* ranking family: daily tables of 0..max_cities cities, the cities in
\* ascending, descending or rotated order, each on date 0 only, or on dates 0
\* and 1 with either date first
RankTables(max_cities) ==
    {[cols |-> {DailyColumnNames[j] : j \in 1..Len(DailyColumnNames)},
      rows |-> [i \in 1..(n * Len(dates)) |->
                  LET k == ((i - 1) % n) + 1
                      city == TimeAt(order, k, n) + 1
                      date == dates[((i - 1) \div n) + 1]
                  IN  DailyObs(city, date, RankValue(pattern, city, date))]] :
        n \in 0..max_cities, pattern \in RankPatterns, order \in Layouts,
        dates \in {<<0>>, <<0, 1>>, <<1, 0>>}}

\* payloads that are not well formed: one without its hourly block, and ones
\* whose temperature array is shorter or longer than the other arrays
MalformedPayloads ==
    {[city_name |-> 1, lat |-> -23, lon |-> -46]}
    \cup
    {[city_name |-> 1, lat |-> -23, lon |-> -46,
      hourly |-> [Hourly(ss) EXCEPT !.temperature_2m = temps]] :
        <<ss, temps>> \in {<<SampleSeries2, <<25>>>>, <<SampleSeries2, <<25, 30, 35>>>>,
                           <<SampleSeries1, <<>>>>}}

\* batches of plain payloads and malformed ones, in any order
ShapeBatches(max_payloads) ==
    SeqsUpTo(MalformedPayloads
               \cup {p \in Payloads : p.lat = -23 /\ "state" \notin DOMAIN p},
             max_payloads)

----------------------------------------------------------------------------
(* The fetcher: fetch_all_cities and fetch_city_weather                    *)

MaxRetry == 3           \* retry_attempts ranges over 0..MaxRetry

MaxFetchCities == 2     \* cities of the list handed to fetch_all_cities

\* the absence signal, and a payload, as fetch_city_weather returns them
None == [kind |-> "none"]

Some(data) == [kind |-> "data", value |-> data]

\* the entries of config['cities']
CityConfigs == {[name |-> 1, lat |-> -23, lon |-> -46], [name |-> 2, lat |-> -8, lon |-> -35]}

\* the bodies response.json() may return
Bodies ==
    {[latitude |-> -23, longitude |-> -46, hourly |-> Hourly(ss)] :
        ss \in {SampleSeries1, SampleSeries2}}

\* what a request may come to: a response with a body, or an exception
\* (a timeout, an HTTP error status, a body that is no JSON object)
Outcomes == {[kind |-> "ok", body |-> b] : b \in Bodies} \cup {[kind |-> "fail"]}

\* an annotation with the coordinates of the response, not the requested ones
AnnotateFromResponse(body, city_name, lat, lon) ==
    [k \in DOMAIN body \cup {"city_name", "lat", "lon", "fetch_timestamp"} |->
        CASE k = "city_name" -> city_name
          [] k = "lat" -> body.latitude
          [] k = "lon" -> body.longitude
          [] k = "fetch_timestamp" -> "now"
          [] OTHER -> body[k]]

\* data = response.json() with city_name, lat, lon and fetch_timestamp set
Annotate(body, city_name, lat, lon) ==
    [k \in DOMAIN body \cup {"city_name", "lat", "lon", "fetch_timestamp"} |->
        CASE k = "city_name" -> city_name
          [] k = "lat" -> lat
          [] k = "lon" -> lon
          [] k = "fetch_timestamp" -> "now"
          [] OTHER -> body[k]]

\* a loop test that lets the last attempt sleep too
MayRetryAlways(attempt, retry_attempts) == attempt < retry_attempts

\* attempt < self.retry_attempts - 1: there is an attempt left after this one
MayRetry(attempt, retry_attempts) == attempt < retry_attempts - 1

\* the delay before the next attempt, in seconds
BackoffDelay(attempt) == 2 ^ attempt

\* a test that takes the absence signal for a payload
TruthyAlways(data) == TRUE

\* `if data`: a payload is a non-empty dictionary, None is not
Truthy(data) == data.kind = "data" /\ DOMAIN data.value # {}

\* the object fetch_city_weather returned: the payload itself, or None
ValueOf(data) == IF data.kind = "data" THEN data.value ELSE data

\* a fetcher that has not been called
IdleFetcher ==
    [retry_attempts |-> 3, cities |-> <<>>, pc |-> "idle", i |-> 0, attempt |-> 0,
     data |-> None, all_data |-> <<>>, calls |-> <<>>]

\* WeatherDataFetcher(config) at the call fetch_all_cities(cities): no city
\* fetched yet, all_data empty
FetcherAt(retry_attempts, cities) ==
    [IdleFetcher EXCEPT !.retry_attempts = retry_attempts, !.cities = cities,
                        !.pc = "loop"]

\* one more event of the call of fetch_city_weather in progress
Logged(f, event) == [f EXCEPT !.calls[f.i].events = Append(@, event)]

\* fetch_city_weather returns `data`
Returned(f, data) ==
    [f EXCEPT !.data = data, !.pc = "returned", !.calls[f.i].returned = data]

\* `for city in cities` takes the next city and calls fetch_city_weather; with
\* retry_attempts = 0 the loop over the attempts has no pass and the call
\* returns None at once
CallFetchCityWeather ==
    /\ fetcher.pc = "loop"
    /\ fetcher.i < Len(fetcher.cities)
    /\ LET called == [fetcher EXCEPT
                        !.i = @ + 1, !.attempt = 0,
                        !.calls = Append(@, [city |-> fetcher.cities[fetcher.i + 1],
                                             events |-> <<>>, returned |-> None])]
       IN  fetcher' = IF fetcher.retry_attempts > 0
                      THEN [called EXCEPT !.pc = "request"]
                      ELSE Returned(called, None)
    /\ UNCHANGED <<raw_data, df, Settings, op, result, dag>>

\* one pass of the loop over the attempts up to the sleep: the request, and
\* the return of the payload or, after the last attempt, of None
Request ==
    /\ fetcher.pc = "request"
    /\ \E outcome \in Outcomes :
        LET city == fetcher.cities[fetcher.i]
            logged == Logged(fetcher, [outcome EXCEPT !.kind = "request"]
                                        @@ [outcome |-> outcome.kind])
        IN  fetcher' =
              IF outcome.kind = "ok"
              THEN Returned(logged, Some(Annotate(outcome.body, city.name, city.lat, city.lon)))
              ELSE IF MayRetry(fetcher.attempt, fetcher.retry_attempts)
              THEN [logged EXCEPT !.pc = "sleep"]
              ELSE Returned(logged, None)
    /\ UNCHANGED <<raw_data, df, Settings, op, result, dag>>

\* time.sleep(2**attempt), then the next pass of the loop if there is one; a
\* loop that ends without a return returns None
Backoff ==
    /\ fetcher.pc = "sleep"
    /\ LET slept == Logged(fetcher, [kind |-> "sleep",
                                     seconds |-> BackoffDelay(fetcher.attempt)])
       IN  fetcher' = IF fetcher.attempt + 1 < fetcher.retry_attempts
                      THEN [slept EXCEPT !.attempt = @ + 1, !.pc = "request"]
                      ELSE Returned(slept, None)
    /\ UNCHANGED <<raw_data, df, Settings, op, result, dag>>

\* back in fetch_all_cities: `if data: all_data.append(data)`, then the pause
\* between two cities
Collect ==
    /\ fetcher.pc = "returned"
    /\ fetcher' = [fetcher EXCEPT
                      !.all_data = IF Truthy(fetcher.data) THEN Append(@, ValueOf(fetcher.data))
                                   ELSE @,
                      !.pc = "loop"]
    /\ UNCHANGED <<raw_data, df, Settings, op, result, dag>>

\* the loop over the cities is over: fetch_all_cities returns all_data, which
\* the caller takes for its batch
ReturnAllData ==
    /\ fetcher.pc = "loop"
    /\ fetcher.i = Len(fetcher.cities)
    /\ fetcher' = [fetcher EXCEPT !.pc = "done"]
    /\ raw_data' = fetcher.all_data
    /\ UNCHANGED <<df, Settings, op, result, dag>>

FetcherNext ==
    \/ CallFetchCityWeather
    \/ Request
    \/ Backoff
    \/ Collect
    \/ ReturnAllData

----------------------------------------------------------------------------
(* The scheduled pipeline                                                  *)

Tasks == {"fetch_data", "process_data", "store_results", "send_notifications"}

\* default_args: a task that fails is tried again up to twice
Retries == 2

\* fetch_task >> process_task >> [store_task, notify_task]: the tasks that
\* are directly upstream of task t
Upstream(t) ==
    CASE t = "fetch_data" -> {}
      [] t = "process_data" -> {"fetch_data"}
      [] t = "store_results" -> {"process_data"}
      [] t = "send_notifications" -> {"process_data"}

\* a run of the pipeline none of whose tasks has been scheduled
NoRun == [t \in Tasks |-> [state |-> "none", try_number |-> 0]]

\* the scheduler starts a task that waits, or waits for its retry, once all
\* its upstream tasks have succeeded (the default trigger rule)
StartTask(t) ==
    /\ dag[t].state \in {"none", "up_for_retry"}
    /\ \A u \in Upstream(t) : dag[u].state = "success"
    /\ dag' = [dag EXCEPT ![t] = [state |-> "running", try_number |-> @.try_number + 1]]
    /\ UNCHANGED <<raw_data, df, Settings, op, result, fetcher>>

\* the callable of a running task returns
SucceedTask(t) ==
    /\ dag[t].state = "running"
    /\ dag' = [dag EXCEPT ![t].state = "success"]
    /\ UNCHANGED <<raw_data, df, Settings, op, result, fetcher>>

\* the callable of a running task raises: the task is tried again if it has
\* retries left, else it has failed
FailTask(t) ==
    /\ dag[t].state = "running"
    /\ dag' = [dag EXCEPT ![t].state = IF dag[t].try_number <= Retries
                                       THEN "up_for_retry" ELSE "failed"]
    /\ UNCHANGED <<raw_data, df, Settings, op, result, fetcher>>

\* a task one of whose upstream tasks failed, or was not run for that reason,
\* is not run
SkipTask(t) ==
    /\ dag[t].state = "none"
    /\ \E u \in Upstream(t) : dag[u].state \in {"failed", "upstream_failed"}
    /\ dag' = [dag EXCEPT ![t].state = "upstream_failed"]
    /\ UNCHANGED <<raw_data, df, Settings, op, result, fetcher>>

PipelineNext ==
    \E t \in Tasks :
        \/ StartTask(t)
        \/ SucceedTask(t)
        \/ FailTask(t)
        \/ SkipTask(t)

----------------------------------------------------------------------------
(* Initial states and specifications                                       *)

\* a processor built from `configs`, handed a table of `tables` by its caller
InitWith(configs, tables) ==
    /\ \E config \in configs : Construct(config)
    /\ raw_data = <<>>
    /\ df \in tables
    /\ op = "init"
    /\ result = Ok(<<>>)
    /\ fetcher = IdleFetcher
    /\ dag = NoRun

\* a processor under construction from any configuration, with the table its
\* caller will hand it should the construction succeed
InitConfig ==
    /\ \E config \in ConfigCases :
          LET made == WeatherDataProcessor(config)
              self == IF made.kind = "ok" THEN made.value ELSE NoSelf
          IN  /\ op = "__init__"
              /\ result = IF made.kind = "ok" THEN Ok(<<>>) ELSE made
              /\ ma_window = self.ma_window
              /\ anomaly_threshold = self.anomaly_threshold
              /\ alert_config = self.alert_config
    /\ raw_data = <<>>
    /\ df \in AlertTables(MaxConfigRows)
    /\ fetcher = IdleFetcher
    /\ dag = NoRun

\* a processor about to load a batch of payloads
InitRaw ==
    /\ Construct(TestConfig)
    /\ raw_data \in Batches(MaxPayloads)
    /\ df = EmptyFrame
    /\ op = "init"
    /\ result = Ok(<<>>)
    /\ fetcher = IdleFetcher
    /\ dag = NoRun

\* a processor about to load a batch that may hold malformed payloads
InitShape ==
    /\ Construct(TestConfig)
    /\ raw_data \in ShapeBatches(MaxPayloads)
    /\ df = EmptyFrame
    /\ op = "init"
    /\ result = Ok(<<>>)
    /\ fetcher = IdleFetcher
    /\ dag = NoRun

InitSummary == InitWith({SummaryConfig}, SummaryTables(MaxSummaryRows)) \/ InitRaw

InitRank == InitWith({TestConfig}, RankTables(MaxRankCities))

InitMissing == InitWith({TestConfig}, MissingTables(MaxMissingRows))

InitAlerts == InitWith({TestConfig, OtherAlertConfig}, AlertTables(MaxAlertRows))

InitSeries ==
    \/ InitWith(SeriesConfigs(MaxWindow), TempTables(MixedShapes(MaxRows)))
    \/ InitWith({TestConfig}, TempTables(SingleShapes(MaxSeries)))
    \/ InitWith({TestConfig}, {AnomalyTestTable})

InitRain == InitWith({TestConfig}, RainTables(MaxRows, MaxSeries))

InitLong == InitWith({TestConfig}, LongTables(MaxTail))

InitDaily == InitWith({TestConfig}, DailyTables(MaxDailyRows)) \/ InitRaw

InitPatterns ==
    \/ InitWith({TestConfig}, TempTables(SeriesShapes(MaxRows, MaxSeries)))
    \/ InitRain
    \/ InitLong
    \/ InitWith({TestConfig}, PairTables \cup LongPairTables)

Init == InitAlerts \/ InitSeries \/ InitRain \/ InitLong \/ InitDaily

Spec == Init /\ [][Next]_vars

SpecAlerts == InitAlerts /\ [][Next]_vars

SpecSeries == InitSeries /\ [][Next]_vars

SpecRain == InitRain /\ [][Next]_vars

SpecLong == InitLong /\ [][Next]_vars

SpecDaily == InitDaily /\ [][Next]_vars

SpecPatterns == InitPatterns /\ [][Next]_vars

SpecRaw == InitRaw /\ [][Next]_vars

SpecShape == InitShape /\ [][Next]_vars

SpecRank == InitRank /\ [][Next]_vars

SpecMissing == InitMissing /\ [][Next]_vars

SpecSummary == InitSummary /\ [][Next]_vars

\* a fetcher called on a list of cities, beside a processor that awaits the batch
InitFetcher ==
    /\ Construct(TestConfig)
    /\ raw_data = <<>>
    /\ df = EmptyFrame
    /\ op = "init"
    /\ result = Ok(<<>>)
    /\ fetcher \in {FetcherAt(r, cs) : r \in 0..MaxRetry,
                                        cs \in SeqsUpTo(CityConfigs, MaxFetchCities)}
    /\ dag = NoRun

SpecConfig == InitConfig /\ [][Next]_vars

SpecFetcher == InitFetcher /\ [][FetcherNext]_vars

InitDashboard == InitWith({TestConfig}, DashTables(MaxDashRows))

SpecDashboard == InitDashboard /\ [][DashboardNext]_vars

\* a run of the pipeline that the scheduler has just created
InitPipeline ==
    /\ Construct(TestConfig)
    /\ raw_data = <<>>
    /\ df = EmptyFrame
    /\ op = "init"
    /\ result = Ok(<<>>)
    /\ fetcher = IdleFetcher
    /\ dag = NoRun

SpecPipeline == InitPipeline /\ [][PipelineNext]_vars

----------------------------------------------------------------------------
(* Properties                                                              *)

\* the sum of the function f over the finite set S of its arguments
RECURSIVE SumOver(_, _)
SumOver(f, S) ==
    IF S = {} THEN 0
    ELSE LET x == CHOOSE y \in S : TRUE IN f[x] + SumOver(f, S \ {x})

Rows == 1..Len(df.rows)

\* the rows of the caller's table that are of the city of row i
SameCity(i) == {j \in Rows : df.rows[j].city = df.rows[i].city}

\* the alerts of the result that are of type ty and carry the city and time of row i
AlertsFor(i, ty) ==
    {k \in 1..Len(result.value) :
        /\ result.value[k].type = ty
        /\ result.value[k].city = df.rows[i].city
        /\ result.value[k].time = df.rows[i].time}

\* row i has exactly one alert of type ty, whose value is v, if `violated`,
\* and none otherwise
OneAlertIff(i, ty, violated, v) ==
    /\ Cardinality(AlertsFor(i, ty)) = (IF violated THEN 1 ELSE 0)
    /\ \A k \in AlertsFor(i, ty) : result.value[k].value = v

\* C1: generate_alerts emits for each row exactly one high_temperature alert iff
\* temperature_2m > T_hi, one low_temperature alert iff temperature_2m < T_lo,
\* one high_wind alert iff wind_speed_10m > W_hi and one heavy_precipitation
\* alert iff precipitation > P_hi (strictly), each with the city and time of the
\* row and the triggering measurement as its value; there is no other alert.
\* (The rows of the alert family have distinct times, so city and time name a row.)
C1_AlertsPerRow ==
    op = "generate_alerts" =>
        /\ \A i \in Rows :
            LET r == df.rows[i] IN
            /\ result.kind = "ok"
            /\ OneAlertIff(i, "high_temperature",
                   r.temperature_2m > alert_config.temperature.high_threshold,
                   r.temperature_2m)
            /\ OneAlertIff(i, "low_temperature",
                   r.temperature_2m < alert_config.temperature.low_threshold,
                   r.temperature_2m)
            /\ OneAlertIff(i, "high_wind",
                   r.wind_speed_10m > alert_config.wind_speed.high_threshold,
                   r.wind_speed_10m)
            /\ OneAlertIff(i, "heavy_precipitation",
                   r.precipitation > alert_config.precipitation.high_threshold,
                   r.precipitation)
        /\ result.kind = "ok" =>
            \A k \in 1..Len(result.value) :
                \E i \in Rows : k \in AlertsFor(i, result.value[k].type)

\* C1 witness: with T_hi = 35, a row at 40.0 degrees and wind above W_hi has its
\* one high_temperature alert of value 40 and its high_wind alert, and a row at
\* exactly 35 degrees has none
C1_Witness ==
    /\ op = "generate_alerts"
    /\ result.kind = "ok"
    /\ alert_config.temperature.high_threshold = 35
    /\ \E i, j \in Rows :
        /\ df.rows[i].temperature_2m = 40
        /\ df.rows[i].wind_speed_10m > alert_config.wind_speed.high_threshold
        /\ \E k \in AlertsFor(i, "high_temperature") : result.value[k].value = 40
        /\ AlertsFor(i, "high_wind") # {}
        /\ df.rows[j].temperature_2m = 35
        /\ AlertsFor(j, "high_temperature") = {}

\* the table a call returned
Out == result.value.rows

\* the temperature of row j of the caller's table
Temp(j) == df.rows[j].temperature_2m

TempOf == [j \in Rows |-> Temp(j)]

TempSquared == [j \in Rows |-> Temp(j) * Temp(j)]

\* n * (n - 1) times the sample variance of the temperatures of the rows S:
\* n * (sum of squares) - (sum) ^ 2
ScaledVariance(S) ==
    Cardinality(S) * SumOver(TempSquared, S) - SumOver(TempOf, S) * SumOver(TempOf, S)

\* sigma > 0 and |value - mu| > anomaly_threshold * sigma for row i, mu and
\* sigma being the mean and the sample standard deviation of the temperatures
\* of the rows of the city of row i (squared, and cleared of denominators)
IsAnomalous(i) ==
    LET S == SameCity(i)
        n == Cardinality(S)
        dev == n * Temp(i) - SumOver(TempOf, S)
        tn == anomaly_threshold.num
        td == anomaly_threshold.den
    IN  /\ n >= 2
        /\ ScaledVariance(S) > 0
        /\ dev * dev * (n - 1) * td * td > tn * tn * n * ScaledVariance(S)

\* C2: detect_anomalies flags a row iff the sample standard deviation of the
\* temperatures of the row's city is positive and the row's temperature is
\* further from the city's mean than anomaly_threshold standard deviations, the
\* mean and the deviation taken over the rows of that city only; so no row of a
\* city with a constant series is flagged, and 100.0 among 20..26 is flagged
\* with threshold 2.0.
C2_AnomalyIffBeyondSigma ==
    op = "detect_anomalies" =>
        /\ \A i \in Rows :
            /\ result.kind = "ok"
            /\ Len(Out) = Len(df.rows)
            /\ Out[i].temp_anomaly = IsAnomalous(i)
            /\ (\A j \in SameCity(i) : Temp(j) = Temp(i)) => Out[i].temp_anomaly = FALSE
        /\ (df = AnomalyTestTable /\ anomaly_threshold = [num |-> 2, den |-> 1])
              => Out[8].temp_anomaly = TRUE

\* C2 witness: with threshold 0.5, a city with 30 and 36 degrees has both rows
\* flagged although a row of another city at 40 degrees lies between them, and
\* that other row, alone in its city, is not flagged
C2_Witness ==
    /\ op = "detect_anomalies"
    /\ result.kind = "ok"
    /\ anomaly_threshold = [num |-> 1, den |-> 2]
    /\ Len(df.rows) = 3
    /\ df.rows[1].city = df.rows[3].city
    /\ df.rows[2].city # df.rows[1].city
    /\ Temp(1) = 30 /\ Temp(2) = 40 /\ Temp(3) = 36
    /\ Out[1].temp_anomaly /\ Out[3].temp_anomaly
    /\ ~Out[2].temp_anomaly

\* the rows of the city of row i from the first one up to row i, in table order
CityRowsUpTo(i) == {j \in SameCity(i) : j <= i}

\* the last min(k, ma_window) of them, row i being the k-th row of its city
WindowRows(i) ==
    {j \in CityRowsUpTo(i) :
        Cardinality({l \in CityRowsUpTo(i) : l >= j}) <= ma_window}

\* C3: calculate_moving_averages gives the k-th row of each city, in table
\* order, a temp_ma equal to the mean temperature of the last min(k, W) rows of
\* that city, whatever rows of other cities lie between them; every row has a
\* numeric temp_ma and the first row of a city has its own temperature.
C3_MovingAverageOfCityWindow ==
    op = "calculate_moving_averages" =>
        \A i \in Rows :
            /\ result.kind = "ok"
            /\ Len(Out) = Len(df.rows)
            /\ Out[i].temp_ma # NaNFrac
            /\ Out[i].temp_ma.den > 0
            /\ Cardinality(WindowRows(i)) =
                 (IF Cardinality(CityRowsUpTo(i)) < ma_window
                  THEN Cardinality(CityRowsUpTo(i)) ELSE ma_window)
            /\ Out[i].temp_ma.num * Cardinality(WindowRows(i))
                 = Out[i].temp_ma.den * SumOver(TempOf, WindowRows(i))
            /\ CityRowsUpTo(i) = {i} => Out[i].temp_ma = [num |-> Temp(i), den |-> 1]

\* C3 witness: with a window of 2, the third row of a city of 30, 36 and 40
\* degrees has temp_ma 38, the mean of its last two rows; its first row has 30
C3_Witness ==
    /\ op = "calculate_moving_averages"
    /\ result.kind = "ok"
    /\ ma_window = 2
    /\ Len(df.rows) = 3
    /\ \A i \in Rows : df.rows[i].city = df.rows[1].city
    /\ Temp(1) = 30 /\ Temp(2) = 36 /\ Temp(3) = 40
    /\ Out[1].temp_ma = [num |-> 30, den |-> 1]
    /\ Out[2].temp_ma = [num |-> 33, den |-> 1]
    /\ Out[3].temp_ma = [num |-> 38, den |-> 1]

\* rows of two cities interleaved, with a window of 1: each row's temp_ma is its
\* own temperature, not a mean with the other city's row before it
C3_InterleavedWitness ==
    /\ op = "calculate_moving_averages"
    /\ result.kind = "ok"
    /\ ma_window = 1
    /\ Len(df.rows) = 3
    /\ df.rows[1].city = df.rows[3].city
    /\ df.rows[2].city # df.rows[1].city
    /\ Temp(1) = 30 /\ Temp(2) = 40 /\ Temp(3) = 36
    /\ Out[3].temp_ma = [num |-> 36, den |-> 1]

\* the calendar date of row j of the caller's table: its day number
DateAt(j) == df.rows[j].time \div 24

\* the rows of the (city, date) group of row i
GroupRows(i) == {j \in SameCity(i) : DateAt(j) = DateAt(i)}

FieldOf(c) == [j \in Rows |-> df.rows[j][c]]

\* m is the mean of column c over the rows S
IsMeanOf(m, c, S) ==
    /\ m # NaNFrac
    /\ m.den > 0
    /\ m.num * Cardinality(S) = m.den * SumOver(FieldOf(c), S)

IsMinOf(v, c, S) ==
    (\E j \in S : df.rows[j][c] = v) /\ (\A j \in S : v <= df.rows[j][c])

IsMaxOf(v, c, S) ==
    (\E j \in S : df.rows[j][c] = v) /\ (\A j \in S : v >= df.rows[j][c])

\* the first row of S in table order
FirstRow(S) == CHOOSE j \in S : \A l \in S : j <= l

\* the call returned a table with a row for the group of row i that holds the
\* group's statistics
HasDailyValues(i) ==
    /\ result.kind = "ok"
    /\ \E g \in 1..Len(Out) :
        LET S == GroupRows(i) IN
        /\ Out[g].city = df.rows[i].city
        /\ Out[g].date = DateAt(i)
        /\ IsMeanOf(Out[g].temp_mean, "temperature_2m", S)
        /\ IsMinOf(Out[g].temp_min, "temperature_2m", S)
        /\ IsMaxOf(Out[g].temp_max, "temperature_2m", S)
        /\ IsMeanOf(Out[g].humidity_mean, "relative_humidity_2m", S)
        /\ IsMeanOf(Out[g].cloud_cover_mean, "cloud_cover", S)
        /\ Out[g].precipitation_total = SumOver(FieldOf("precipitation"), S)
        /\ IsMaxOf(Out[g].wind_max, "wind_speed_10m", S)
        /\ Out[g].latitude = df.rows[FirstRow(S)].latitude
        /\ Out[g].longitude = df.rows[FirstRow(S)].longitude

\* C4: for every (city, date) group of the input, aggregate_daily_stats yields
\* the mean, minimum and maximum temperature, the mean humidity and cloud cover,
\* the precipitation sum, the maximum wind speed and the first latitude and
\* longitude of the group.
C4_DailyValues ==
    op = "aggregate_daily_stats" => \A i \in Rows : HasDailyValues(i)

\* the same, for the tables that have neither a state nor a region column
C4_DailyValuesWithoutRegion ==
    (op = "aggregate_daily_stats" /\ df.cols \cap {"state", "region"} = {})
        => \A i \in Rows : HasDailyValues(i)

\* a table with a state column, built from a payload that carries one, has rows
\* to aggregate, and the call raises ValueError instead of returning their
\* statistics
C4_Witness ==
    /\ op = "aggregate_daily_stats"
    /\ "state" \in df.cols
    /\ df.rows # <<>>
    /\ result = Raise("ValueError")

\* temperatures 20, 25 and 30 of one city and date give temp_mean 25,
\* temp_min 20 and temp_max 30
C4_ExampleWitness ==
    /\ op = "aggregate_daily_stats"
    /\ result.kind = "ok"
    /\ Len(df.rows) = 3
    /\ GroupRows(1) = Rows
    /\ {Temp(j) : j \in Rows} = {20, 25, 30}
    /\ Len(Out) = 1
    /\ Out[1].temp_mean = [num |-> 25, den |-> 1]
    /\ Out[1].temp_min = 20
    /\ Out[1].temp_max = 30

\* the (city, date) pairs present in the caller's table
DailyKeys == {<<df.rows[j].city, DateAt(j)>> : j \in Rows}

\* the call returned exactly one row per pair of the input, by city then date
HasOneRowPerKey ==
    /\ result.kind = "ok"
    /\ Len(Out) = Cardinality(DailyKeys)
    /\ {<<Out[g].city, Out[g].date>> : g \in 1..Len(Out)} = DailyKeys
    /\ \A g, h \in 1..Len(Out) :
        g < h => \/ Out[g].city < Out[h].city
                 \/ Out[g].city = Out[h].city /\ Out[g].date < Out[h].date

\* C5: the output of aggregate_daily_stats has exactly one row per distinct
\* (city, date) pair of the input, none missing, duplicated or invented, ordered
\* by city and then by date whatever the order of the input rows.
C5_OneRowPerCityDate ==
    op = "aggregate_daily_stats" => HasOneRowPerKey

\* the same, for the tables that have columns, and neither state nor region
C5_OneRowPerCityDateWithoutRegion ==
    (/\ op = "aggregate_daily_stats"
     /\ df.cols # {}
     /\ df.cols \cap {"state", "region"} = {})
        => HasOneRowPerKey

\* a table with a region column holding two (city, date) pairs: the call raises
\* ValueError and returns no row for either
C5_Witness ==
    /\ op = "aggregate_daily_stats"
    /\ "region" \in df.cols
    /\ Cardinality(DailyKeys) = 2
    /\ result = Raise("ValueError")

\* rows given as city 2 before city 1 and day 1 before day 0 come out ordered
C5_OrderWitness ==
    /\ op = "aggregate_daily_stats"
    /\ result.kind = "ok"
    /\ Len(df.rows) = 3
    /\ df.rows[1].city = 2
    /\ df.rows[2].city = 1 /\ DateAt(2) = 1
    /\ df.rows[3].city = 1 /\ DateAt(3) = 0
    /\ Len(Out) = 3
    /\ Out[1].city = 1 /\ Out[1].date = 0
    /\ Out[3].city = 2

TimeOf(j) == df.rows[j].time

\* the rows of the city of row i whose times lie from that of row a to that of
\* row b: a stretch of the city's series sorted by time
Stretch(i, a, b) == {j \in SameCity(i) : TimeOf(a) <= TimeOf(j) /\ TimeOf(j) <= TimeOf(b)}

Hot(j) == Temp(j) > 35

\* the rows of the city of row i above 35 degrees
HotRows(i) == {j \in SameCity(i) : Hot(j)}

\* the lengths of the runs of consecutive hot rows of the city's sorted series
HotRunLengths(i) ==
    {Cardinality(Stretch(i, a, b)) :
        <<a, b>> \in {ab \in SameCity(i) \X SameCity(i) :
                         /\ TimeOf(ab[1]) <= TimeOf(ab[2])
                         /\ \A j \in Stretch(i, ab[1], ab[2]) : Hot(j)}}

LongestHotRun(i) ==
    CHOOSE d \in HotRunLengths(i) \cup {0} : \A e \in HotRunLengths(i) : e <= d

\* the findings of a pattern list that are of the city of row i
FindingsFor(list, i) == {k \in 1..Len(list) : list[k].city = df.rows[i].city}

\* C6: for each city, on its rows sorted by time whatever their order in the
\* table, detect_weather_patterns reports a heat wave iff some run of
\* consecutive rows above 35 degrees has at least 3 rows; duration_hours is the
\* length of the longest run and max_temp the highest temperature of all the
\* city's rows above 35 degrees, in the run or not.
C6_HeatWaveOfLongestRun ==
    op = "detect_weather_patterns" =>
        \A i \in Rows :
            /\ result.kind = "ok"
            /\ LET found == FindingsFor(result.value.heat_waves, i) IN
               IF LongestHotRun(i) >= 3
               THEN /\ Cardinality(found) = 1
                    /\ \A k \in found :
                        /\ result.value.heat_waves[k].duration_hours = LongestHotRun(i)
                        /\ IsMaxOf(result.value.heat_waves[k].max_temp,
                                   "temperature_2m", HotRows(i))
               ELSE found = {}

\* C6 witness: a city whose rows are given as 30, 36, 36, 36 degrees at hours
\* 1..4 and then 40 degrees at hour 0: sorted by time the run of 36s is cut off
\* from the 40 by the 30, and the finding has duration 3 and max_temp 40
C6_Witness ==
    /\ op = "detect_weather_patterns"
    /\ result.kind = "ok"
    /\ Len(df.rows) = 5
    /\ \A j \in Rows : TimeOf(j) = j % 5
    /\ Temp(1) = 30 /\ Temp(2) = 36 /\ Temp(3) = 36 /\ Temp(4) = 36 /\ Temp(5) = 40
    /\ result.value.heat_waves =
         <<[city |-> df.rows[1].city, duration_hours |-> 3, max_temp |-> 40]>>

\* runs of one and two rows above 35 degrees alone yield no finding
C6_ShortRunsWitness ==
    /\ op = "detect_weather_patterns"
    /\ result.kind = "ok"
    /\ Len(df.rows) = 5
    /\ \A j \in Rows : TimeOf(j) = j - 1
    /\ Temp(1) = 36 /\ Temp(2) = 36 /\ Temp(3) = 30 /\ Temp(4) = 40 /\ Temp(5) = 30
    /\ result.value.heat_waves = <<>>

\* the first row of each city of the caller's table
FirstRows == {i \in Rows : \A j \in SameCity(i) : i <= j}

\* row b is exactly 24 rows before row a in their city's series sorted by time
Is24RowsBefore(b, a) ==
    /\ b \in SameCity(a)
    /\ Cardinality({j \in SameCity(a) : TimeOf(b) <= TimeOf(j) /\ TimeOf(j) < TimeOf(a)}) = 24

\* the temperature of row a less that of the row 24 rows before it is below -10
ColdRows(i) ==
    {a \in SameCity(i) : \E b \in Rows : Is24RowsBefore(b, a) /\ Temp(a) - Temp(b) < -10}

\* the differences of the qualifying rows `cold` of the city of row i
ColdDrops(i, cold) ==
    {Temp(ab[1]) - Temp(ab[2]) : ab \in {q \in cold \X SameCity(i) :
                                            Is24RowsBefore(q[2], q[1])}}

\* C7: for each city, on its rows sorted by time, a row qualifies iff the row 24
\* rows earlier exists and is more than 10 degrees warmer; a cold front is
\* reported iff some row qualifies, temp_drop being the most negative
\* qualifying difference and time the time of the earliest qualifying row.
C7_ColdFrontOfDeepestDrop ==
    op = "detect_weather_patterns" =>
        \A i \in FirstRows :
            /\ result.kind = "ok"
            /\ LET found == FindingsFor(result.value.cold_fronts, i)
                   cold == ColdRows(i)
                   drops == ColdDrops(i, cold)
               IN
               IF cold # {}
               THEN /\ Cardinality(found) = 1
                    /\ \A k \in found :
                        LET f == result.value.cold_fronts[k] IN
                        /\ f.temp_drop \in drops
                        /\ \A d \in drops : f.temp_drop <= d
                        /\ \E a \in cold : f.time = TimeOf(a)
                        /\ \A a \in cold : f.time <= TimeOf(a)
               ELSE found = {}

\* C7 witness: hour 24 is 11 degrees colder than hour 0 and hour 25 is 13
\* degrees colder than hour 1, in a table that also holds a row of another
\* city: the finding has temp_drop -13 and the time of hour 24
C7_Witness ==
    /\ op = "detect_weather_patterns"
    /\ result.kind = "ok"
    /\ \E a, b, c, d \in SameCity(1) :
        /\ TimeOf(a) = 0 /\ Temp(a) = 30
        /\ TimeOf(b) = 1 /\ Temp(b) = 32
        /\ TimeOf(c) = 24 /\ Temp(c) = 19
        /\ TimeOf(d) = 25 /\ Temp(d) = 19
    /\ SameCity(1) # Rows
    /\ \E k \in FindingsFor(result.value.cold_fronts, 1) :
        /\ result.value.cold_fronts[k].temp_drop = -13
        /\ result.value.cold_fronts[k].time = 24

\* hour 24 being 12 degrees colder than hour 0, and no other hour qualifying,
\* yields temp_drop -12; a drop of exactly 10 degrees yields no finding
C7_ExampleWitness ==
    /\ op = "detect_weather_patterns"
    /\ result.kind = "ok"
    /\ Len(df.rows) = 25
    /\ \A j \in Rows : TimeOf(j) = j - 1
    /\ Temp(1) = 32 /\ Temp(25) = 20
    /\ result.value.cold_fronts = <<[city |-> 1, temp_drop |-> -12, time |-> 24]>>

C7_BoundaryWitness ==
    /\ op = "detect_weather_patterns"
    /\ result.kind = "ok"
    /\ Len(df.rows) = 25
    /\ \A j \in Rows : TimeOf(j) = j - 1
    /\ Temp(1) = 30 /\ Temp(25) = 20
    /\ result.value.cold_fronts = <<>>

\* row a and the two rows before it in their city's series sorted by time (fewer
\* if a is the first or the second row of the series)
RainWindowRows(a) ==
    {j \in SameCity(a) :
        /\ TimeOf(j) <= TimeOf(a)
        /\ Cardinality({l \in SameCity(a) : TimeOf(j) <= TimeOf(l) /\ TimeOf(l) <= TimeOf(a)}) <= 3}

RainSum(a) == SumOver(FieldOf("precipitation"), RainWindowRows(a))

\* the rows of the city of row i whose full window of 3 rows sums to more than 30
WetRows(i) ==
    {a \in SameCity(i) : Cardinality(RainWindowRows(a)) = 3 /\ RainSum(a) > 30}

\* C8: for each city, on its rows sorted by time, a row qualifies iff the
\* precipitation of that row and the two rows before it sums to more than 30
\* (the first two rows never qualify); a heavy rain event is reported iff some
\* row qualifies, precipitation_3h being the greatest qualifying sum and time
\* the time of the earliest qualifying row.
C8_HeavyRainOfPeakWindow ==
    op = "detect_weather_patterns" =>
        \A i \in FirstRows :
            /\ result.kind = "ok"
            /\ LET found == FindingsFor(result.value.heavy_rain_events, i)
                   wet == WetRows(i)
               IN
               IF wet # {}
               THEN /\ Cardinality(found) = 1
                    /\ \A k \in found :
                        LET f == result.value.heavy_rain_events[k] IN
                        /\ \E a \in wet : f.precipitation_3h = RainSum(a)
                        /\ \A a \in wet : f.precipitation_3h >= RainSum(a)
                        /\ \E a \in wet : f.time = TimeOf(a)
                        /\ \A a \in wet : f.time <= TimeOf(a)
               ELSE found = {}

\* C8 witness: hours 0..4 with 10, 10, 11, 11 and 11 mm, given out of order: the
\* sums 31, 32 and 33 qualify, and the finding has precipitation_3h 33 and the
\* time of hour 2
C8_Witness ==
    /\ op = "detect_weather_patterns"
    /\ result.kind = "ok"
    /\ Len(df.rows) = 5
    /\ \E j \in Rows : TimeOf(j) # j - 1
    /\ \A j \in Rows : df.rows[j].precipitation = (IF TimeOf(j) < 2 THEN 10 ELSE 11)
    /\ result.value.heavy_rain_events =
         <<[city |-> df.rows[1].city, precipitation_3h |-> 33, time |-> 2]>>

\* three rows of 10 mm: a sum of exactly 30 qualifies no row
C8_BoundaryWitness ==
    /\ op = "detect_weather_patterns"
    /\ result.kind = "ok"
    /\ Len(df.rows) = 3
    /\ SameCity(1) = Rows
    /\ \A j \in Rows : df.rows[j].precipitation = 10
    /\ result.value.heavy_rain_events = <<>>

\* the first row of the caller's table that is of city c
FirstRowOf(c) == CHOOSE i \in Rows : df.rows[i].city = c /\ \A j \in Rows : df.rows[j].city = c => i <= j

\* a pattern list has at most one finding per city, only of cities of the table
\* that satisfy `qualifies` (given one of their rows), in the order in which
\* the cities first appear in the table
WellFormedList(list, qualifies(_)) ==
    /\ \A k, l \in 1..Len(list) : k # l => list[k].city # list[l].city
    /\ \A k \in 1..Len(list) :
        \E i \in FirstRows : df.rows[i].city = list[k].city /\ qualifies(i)
    /\ \A k, l \in 1..Len(list) :
        k < l => FirstRowOf(list[k].city) < FirstRowOf(list[l].city)

HasHeatWave(i) == LongestHotRun(i) >= 3

HasColdFront(i) == ColdRows(i) # {}

HasHeavyRain(i) == WetRows(i) # {}

\* C9: each of the three lists returned by detect_weather_patterns has at most
\* one finding per city, none for a city with no qualifying hour, and its
\* findings in the order in which the cities first appear in the input; on an
\* empty table all three lists are empty.
C9_PatternLists ==
    op = "detect_weather_patterns" =>
        /\ result.kind = "ok"
        /\ WellFormedList(result.value.heat_waves, HasHeatWave)
        /\ WellFormedList(result.value.cold_fronts, HasColdFront)
        /\ WellFormedList(result.value.heavy_rain_events, HasHeavyRain)
        /\ df.rows = <<>> =>
             result.value = [heat_waves |-> <<>>, cold_fronts |-> <<>>,
                             heavy_rain_events |-> <<>>]

\* C9 witness: city 2 comes first in the table and both cities have a heat
\* wave, listed as city 2 then city 1; only city 1 has heavy rain and the rain
\* list holds its finding alone; no city has a cold front
C9_Witness ==
    /\ op = "detect_weather_patterns"
    /\ result.kind = "ok"
    /\ df.rows # <<>>
    /\ df.rows[1].city = 2
    /\ Len(result.value.heat_waves) = 2
    /\ result.value.heat_waves[1].city = 2
    /\ result.value.heat_waves[2].city = 1
    /\ Len(result.value.heavy_rain_events) = 1
    /\ result.value.heavy_rain_events[1].city = 1
    /\ result.value.cold_fronts = <<>>

\* both cities have a cold front, city 2 first in the table and in the list
C9_ColdOrderWitness ==
    /\ op = "detect_weather_patterns"
    /\ result.kind = "ok"
    /\ Len(result.value.cold_fronts) = 2
    /\ result.value.cold_fronts[1].city = 2
    /\ result.value.cold_fronts[2].city = 1

\* the table without columns that an empty batch of payloads gives, and a table
\* with columns and no rows, both give three empty lists
C9_EmptyWitness ==
    /\ op = "detect_weather_patterns"
    /\ df = EmptyFrame
    /\ result = Ok([heat_waves |-> <<>>, cold_fronts |-> <<>>, heavy_rain_events |-> <<>>])

\* the number of samples of payload p of the batch
SeriesLen(p) == Len(raw_data[p].hourly.time)

SeriesLenOf == [p \in 1..Len(raw_data) |-> SeriesLen(p)]

\* the number of rows that the payloads before payload p contribute
Offset(p) == SumOver(SeriesLenOf, 1..(p - 1))

\* C10: raw_to_dataframe returns the rows of the payloads' hourly series one
\* payload after the other, in the order of the payloads and of their series:
\* the row count is the sum of the series lengths and every row carries the
\* city name, latitude and longitude of its payload and the values of its sample.
C10_RowsInPayloadOrder ==
    op = "raw_to_dataframe" =>
        /\ result.kind = "ok"
        /\ Len(Out) = SumOver(SeriesLenOf, 1..Len(raw_data))
        /\ \A p \in 1..Len(raw_data) :
            \A j \in 1..SeriesLen(p) :
                LET r == Out[Offset(p) + j]
                    h == raw_data[p].hourly
                IN  /\ r.city = raw_data[p].city_name
                    /\ r.latitude = raw_data[p].lat
                    /\ r.longitude = raw_data[p].lon
                    /\ r.time = h.time[j][1] * 24 + h.time[j][2]
                    /\ r.temperature_2m = h.temperature_2m[j]
                    /\ r.relative_humidity_2m = h.relative_humidity_2m[j]
                    /\ r.precipitation = h.precipitation[j]
                    /\ r.wind_speed_10m = h.wind_speed_10m[j]
                    /\ r.cloud_cover = h.cloud_cover[j]

\* C10 witness: a payload of one city with one sample, then a payload of
\* another city and place with two samples, give three rows: the first of the
\* first city, the other two of the second, with their payloads' coordinates
C10_Witness ==
    /\ op = "raw_to_dataframe"
    /\ result.kind = "ok"
    /\ Len(raw_data) = 2
    /\ raw_data[1].city_name # raw_data[2].city_name
    /\ raw_data[1].lat # raw_data[2].lat
    /\ SeriesLen(1) = 1 /\ SeriesLen(2) = 2
    /\ Len(Out) = 3
    /\ Out[1].city = raw_data[1].city_name /\ Out[1].latitude = raw_data[1].lat
    /\ Out[2].city = raw_data[2].city_name /\ Out[2].latitude = raw_data[2].lat
    /\ Out[3].city = raw_data[2].city_name /\ Out[3].temperature_2m = 30

\* payload p of the batch has no hourly block, or hourly arrays of unequal lengths
IsMalformed(p) ==
    \/ "hourly" \notin DOMAIN raw_data[p]
    \/ \E a, b \in DOMAIN raw_data[p].hourly :
          Len(raw_data[p].hourly[a]) # Len(raw_data[p].hourly[b])

\* C11: raw_to_dataframe fails with DataShapeError when a payload has no hourly
\* series or hourly arrays of unequal lengths; the payload is rejected with that
\* error, never truncated or padded into the table.
C11_FailsWithDataShapeError ==
    (op = "raw_to_dataframe" /\ \E p \in 1..Len(raw_data) : IsMalformed(p))
        => result = Raise("DataShapeError")

\* a batch with a malformed payload is rejected, whatever the error: no table
\* is returned, and the caller's table is left as it was
C11_MalformedIsRejected ==
    (op = "raw_to_dataframe" /\ \E p \in 1..Len(raw_data) : IsMalformed(p))
        => result.kind = "raise" /\ df = EmptyFrame

\* a payload whose temperature array has one value for two hours is rejected
\* with ValueError
C11_Witness ==
    /\ op = "raw_to_dataframe"
    /\ Len(raw_data) = 1
    /\ "hourly" \in DOMAIN raw_data[1]
    /\ Len(raw_data[1].hourly.time) = 2
    /\ Len(raw_data[1].hourly.temperature_2m) = 1
    /\ result = Raise("ValueError")

\* a payload without its hourly block is rejected with KeyError
C11_MissingHourlyWitness ==
    /\ op = "raw_to_dataframe"
    /\ Len(raw_data) = 1
    /\ "hourly" \notin DOMAIN raw_data[1]
    /\ result = Raise("KeyError")

\* C12: for an empty sequence of payloads raw_to_dataframe raises no error and
\* returns a table with no rows and no columns.
C12_EmptyBatchGivesEmptyTable ==
    (op = "raw_to_dataframe" /\ raw_data = <<>>) =>
        /\ result.kind = "ok"
        /\ result.value.cols = {}
        /\ result.value.rows = <<>>

\* C12 witness: the empty batch has been converted, and the caller holds the
\* table without rows or columns
C12_Witness ==
    /\ op = "raw_to_dataframe"
    /\ raw_data = <<>>
    /\ result.kind = "ok"
    /\ df = [cols |-> {}, rows |-> <<>>]

\* C13: on a table with a state or a region column aggregate_daily_stats
\* succeeds, and the output row of every (city, date) group carries the state
\* and the region of the first observation of the group.
C13_RegionCarriedForward ==
    (op = "aggregate_daily_stats" /\ df.cols \cap {"state", "region"} # {}) =>
        /\ result.kind = "ok"
        /\ \A i \in Rows :
            \E g \in 1..Len(Out) :
                /\ Out[g].city = df.rows[i].city
                /\ Out[g].date = DateAt(i)
                /\ \A c \in df.cols \cap {"state", "region"} :
                     Out[g][c] = df.rows[FirstRow(GroupRows(i))][c]

\* a table of two rows with state and region columns: the call raises
\* ValueError when it names the aggregated columns
C13_Witness ==
    /\ op = "aggregate_daily_stats"
    /\ {"state", "region"} \subseteq df.cols
    /\ Len(df.rows) = 2
    /\ df.rows[1].state = "SP"
    /\ result = Raise("ValueError")

\* on every table with a state or a region column, with rows or without, the
\* call raises ValueError
C13_AlwaysRaises ==
    (op = "aggregate_daily_stats" /\ df.cols \cap {"state", "region"} # {})
        => result = Raise("ValueError")

\* C14: on an empty observation table, such as the one raw_to_dataframe gives
\* for an empty batch, aggregate_daily_stats raises no error and returns an
\* empty table.
C14_EmptyInputGivesEmptyTable ==
    (op = "aggregate_daily_stats" /\ df.rows = <<>>) =>
        /\ result.kind = "ok"
        /\ result.value.rows = <<>>

\* the empty batch has been converted to the table without columns, and
\* aggregating that table raises KeyError
C14_Witness ==
    /\ op = "aggregate_daily_stats"
    /\ raw_data = <<>>
    /\ df = EmptyFrame
    /\ result = Raise("KeyError")

\* an empty table that has the observation columns, and neither state nor
\* region, is aggregated to an empty table
C14_EmptyWithColumns ==
    (/\ op = "aggregate_daily_stats"
     /\ df.rows = <<>>
     /\ df.cols # {}
     /\ df.cols \cap {"state", "region"} = {})
        => result.kind = "ok" /\ result.value.rows = <<>>

\* the summary a call returned
Stats == result.value

\* C15: on an empty table get_summary_statistics raises nothing and returns a
\* summary whose counts are 0 and whose means, extrema and totals are 0.0.
C15_EmptySummaryIsZero ==
    (op = "get_summary_statistics" /\ (df.cols = {} \/ df.rows = <<>>)) =>
        /\ result.kind = "ok"
        /\ Stats.avg_temperature = [num |-> 0, den |-> 1]
        /\ Stats.avg_humidity = [num |-> 0, den |-> 1]
        /\ Stats.total_cities = 0
        /\ Stats.total_records = 0
        /\ Stats.anomalies_detected = 0
        /\ Stats.max_temperature = 0
        /\ Stats.min_temperature = 0
        /\ Stats.total_precipitation = 0
        /\ Stats.max_wind_speed = 0

\* C15 witness: the table without columns that an empty batch gives has been
\* summarised, with 0 records
C15_Witness ==
    /\ op = "get_summary_statistics"
    /\ df = EmptyFrame
    /\ result.kind = "ok"
    /\ Stats.total_records = 0
    /\ Stats.avg_temperature = [num |-> 0, den |-> 1]

\* a table that has columns, the anomaly column among them, and no rows has
\* been summarised, with 0 records
C15_NoRowsWitness ==
    /\ op = "get_summary_statistics"
    /\ df.rows = <<>>
    /\ "temp_anomaly" \in df.cols
    /\ result.kind = "ok"
    /\ Stats.total_records = 0

\* C16: on a table with rows get_summary_statistics returns the number of
\* distinct cities, the number of rows, the mean, maximum and minimum
\* temperature, the mean humidity, the precipitation sum and the maximum wind
\* speed over all rows, and the number of rows whose temp_anomaly is true, 0
\* when the table has no temp_anomaly column.
C16_SummaryOverAllRows ==
    (op = "get_summary_statistics" /\ df.rows # <<>>) =>
        /\ result.kind = "ok"
        /\ Stats.total_cities = Cardinality({df.rows[i].city : i \in Rows})
        /\ Stats.total_records = Len(df.rows)
        /\ IsMeanOf(Stats.avg_temperature, "temperature_2m", Rows)
        /\ IsMaxOf(Stats.max_temperature, "temperature_2m", Rows)
        /\ IsMinOf(Stats.min_temperature, "temperature_2m", Rows)
        /\ IsMeanOf(Stats.avg_humidity, "relative_humidity_2m", Rows)
        /\ Stats.total_precipitation = SumOver(FieldOf("precipitation"), Rows)
        /\ IsMaxOf(Stats.max_wind_speed, "wind_speed_10m", Rows)
        /\ Stats.anomalies_detected =
             (IF "temp_anomaly" \in df.cols
              THEN Cardinality({i \in Rows : df.rows[i].temp_anomaly})
              ELSE 0)

\* C16 witness: three rows of two cities, two of them flagged and one not:
\* 2 cities, 3 records, 2 anomalies, temperatures from 20 to 30 with mean 25
C16_Witness ==
    /\ op = "get_summary_statistics"
    /\ result.kind = "ok"
    /\ Len(df.rows) = 3
    /\ "temp_anomaly" \in df.cols
    /\ Cardinality({i \in Rows : df.rows[i].temp_anomaly}) = 2
    /\ Stats.total_cities = 2
    /\ Stats.total_records = 3
    /\ Stats.anomalies_detected = 2
    /\ Stats.avg_temperature = [num |-> 25, den |-> 1]
    /\ Stats.max_temperature = 30
    /\ Stats.min_temperature = 20

\* a table with rows and no temp_anomaly column has 0 anomalies detected
C16_NoAnomalyColumnWitness ==
    /\ op = "get_summary_statistics"
    /\ result.kind = "ok"
    /\ Len(df.rows) = 3
    /\ "temp_anomaly" \notin df.cols
    /\ Stats.anomalies_detected = 0
    /\ Stats.total_records = 3

\* the regions that rows of the caller's table have
RegionValues == {df.rows[i].region : i \in {j \in Rows : df.rows[j].region # NaN}}

\* the rows of region r
RegionRows(r) == {i \in Rows : df.rows[i].region # NaN /\ df.rows[i].region = r}

\* e holds the statistics of the rows S, of which there are some
IsSummaryOf(e, S) ==
    /\ e.cities = Cardinality({df.rows[i].city : i \in S})
    /\ IsMeanOf(e.avg_temperature, "temperature_2m", S)
    /\ IsMaxOf(e.max_temperature, "temperature_2m", S)
    /\ IsMinOf(e.min_temperature, "temperature_2m", S)
    /\ IsMeanOf(e.avg_humidity, "relative_humidity_2m", S)
    /\ e.total_precipitation = SumOver(FieldOf("precipitation"), S)
    /\ IsMaxOf(e.max_wind_speed, "wind_speed_10m", S)

\* the call returned one entry per region of the table, keyed by the region
\* and holding the statistics of the rows of that region, and no other entry;
\* no entry at all for a table without rows or without a region column
HasOneEntryPerRegion ==
    /\ result.kind = "ok"
    /\ IF df.rows = <<>> \/ "region" \notin df.cols
       THEN DOMAIN result.value = {}
       ELSE /\ DOMAIN result.value = RegionValues
            /\ \A r \in RegionValues : IsSummaryOf(result.value[r], RegionRows(r))

\* C17: get_regional_statistics returns a mapping with exactly one entry per
\* distinct region of the table, keyed by the region and holding the summary
\* statistics of exactly the rows of that region; the mapping is empty when the
\* table is empty or has no region column.
C17_OneEntryPerRegion ==
    op = "get_regional_statistics" => HasOneEntryPerRegion

\* the same, for the tables in which every row has a region
C17_OneEntryPerRegionWhenComplete ==
    (/\ op = "get_regional_statistics"
     /\ "region" \in df.cols => \A i \in Rows : df.rows[i].region # NaN)
        => HasOneEntryPerRegion

\* a table in which one city has a region and the other has none: the mapping
\* has an entry under the missing value, which counts no city although a row
\* is without region
C17_Witness ==
    /\ op = "get_regional_statistics"
    /\ result.kind = "ok"
    /\ "region" \in df.cols
    /\ \E i \in Rows : df.rows[i].region = NaN
    /\ RegionValues = {"Sudeste"}
    /\ DOMAIN result.value = {"Sudeste", NaN}
    /\ result.value[NaN].cities = 0

\* two cities of two regions, and two cities of one region: one entry per region
C17_TwoRegionsWitness ==
    /\ op = "get_regional_statistics"
    /\ result.kind = "ok"
    /\ "region" \in df.cols
    /\ Len(df.rows) = 3
    /\ DOMAIN result.value = {"Sudeste", "Nordeste"}
    /\ result.value["Sudeste"].cities = 1
    /\ Cardinality(RegionRows("Nordeste")) = 2

C17_SharedRegionWitness ==
    /\ op = "get_regional_statistics"
    /\ result.kind = "ok"
    /\ "region" \in df.cols
    /\ DOMAIN result.value = {"Sudeste"}
    /\ result.value["Sudeste"].cities = 2

----------------------------------------------------------------------------
(* city rankings                                                           *)

RankingNames == {"hottest", "coldest", "rainiest", "windiest", "most_humid"}

RankedColumn(name) ==
    CASE name = "hottest" -> "temp_max"
      [] name = "coldest" -> "temp_min"
      [] name = "rainiest" -> "precipitation_total"
      [] name = "windiest" -> "wind_max"
      [] OTHER -> "humidity_mean"

RankedDirection(name) == IF name = "coldest" THEN "smallest" ELSE "largest"

\* the cities of the caller's table
InputCities == {df.rows[i].city : i \in Rows}

\* the last row of city c in the caller's table
LastRowOf(c) == CHOOSE i \in Rows : df.rows[i].city = c /\ \A j \in Rows : df.rows[j].city = c => j <= i

\* the metric of a ranking entry as a fraction
EntryKey(e, col) == IF col \in MeanColumns THEN e.value ELSE [num |-> e.value, den |-> 1]

\* city c comes before city d in the caller's table
InputOrder(c, d) == FirstRowOf(c) < FirstRowOf(d)

\* city c comes before city d in ascending order of the cities
CityOrder(c, d) == c < d

\* `list` is the ranking of the caller's table by column col: (city, metric)
\* pairs of min(10, number of cities) different cities, sorted in the
\* direction, no city left out that is ahead of a listed one, and cities of
\* equal metric in the order `tie_before`
IsRanking(list, col, direction, tie_before(_, _)) ==
    /\ Len(list) = IF Cardinality(InputCities) < RankingSize
                   THEN Cardinality(InputCities) ELSE RankingSize
    /\ \A k \in 1..Len(list) :
        /\ list[k].city \in InputCities
        /\ list[k].value = df.rows[LastRowOf(list[k].city)][col]
    /\ \A k, l \in 1..Len(list) : k < l =>
        /\ list[k].city # list[l].city
        /\ ~Ahead(EntryKey(list[l], col), EntryKey(list[k], col), direction)
        /\ ~Ahead(EntryKey(list[k], col), EntryKey(list[l], col), direction)
             => tie_before(list[k].city, list[l].city)
    /\ \A c \in InputCities \ {list[k].city : k \in 1..Len(list)} :
        \A k \in 1..Len(list) :
            /\ ~Ahead(AsFrac(df.rows[LastRowOf(c)], col), EntryKey(list[k], col), direction)
            /\ ~Ahead(EntryKey(list[k], col), AsFrac(df.rows[LastRowOf(c)], col), direction)
                 => tie_before(list[k].city, c)

\* the call returned the five rankings of the caller's table, with ties in
\* the order `tie_before`
HasFiveRankings(tie_before(_, _)) ==
    /\ result.kind = "ok"
    /\ DOMAIN result.value = RankingNames
    /\ \A name \in RankingNames :
        IsRanking(result.value[name], RankedColumn(name), RankedDirection(name),
                  tie_before)

\* C18: get_city_rankings of a daily table with rows returns five lists
\* (hottest by temp_max descending, coldest by temp_min ascending, rainiest by
\* precipitation_total descending, windiest by wind_max descending, most_humid
\* by humidity_mean descending), each of (city, metric) pairs, sorted, of
\* length min(10, number of cities), cities of equal metric in input order
C18_RankingsKeepInputOrder ==
    (op = "get_city_rankings" /\ ~IsEmpty(df)) => HasFiveRankings(InputOrder)

\* what the code does: cities of equal metric are in ascending order of the
\* cities, whatever the order of the rows
C18_RankingsTieByCity ==
    (op = "get_city_rankings" /\ ~IsEmpty(df)) => HasFiveRankings(CityOrder)

\* the cities first appear in the caller's table in ascending order
CityOrdered == \A c, d \in InputCities : c < d => FirstRowOf(c) < FirstRowOf(d)

\* on a table whose cities are in ascending order, as aggregate_daily_stats
\* returns it, ties are in input order
C18_InputOrderWhenCityOrdered ==
    (op = "get_city_rankings" /\ ~IsEmpty(df) /\ CityOrdered)
        => HasFiveRankings(InputOrder)

\* on a table without rows the call returns an empty mapping, without lists
C18_EmptyTableGivesNoLists ==
    (op = "get_city_rankings" /\ IsEmpty(df)) => result = Ok(<<>>)

\* more than ten cities in descending order, two of the listed hottest ones
\* with the same temp_max: the rankings were truncated and the tie came out
\* against the input order
C18_Witness ==
    /\ op = "get_city_rankings"
    /\ result.kind = "ok"
    /\ Cardinality(InputCities) > RankingSize
    /\ DOMAIN result.value = RankingNames
    /\ Len(result.value.hottest) = RankingSize
    /\ \E k, l \in 1..Len(result.value.hottest) :
        /\ k < l
        /\ result.value.hottest[k].value = result.value.hottest[l].value
        /\ FirstRowOf(result.value.hottest[l].city) < FirstRowOf(result.value.hottest[k].city)

\* a table of two dates per city with the later date first: the metric
\* listed is the one of the city's last row, not of its first
C18_LastRowWitness ==
    /\ op = "get_city_rankings"
    /\ result.kind = "ok"
    /\ DOMAIN result.value = RankingNames
    /\ \E k \in 1..Len(result.value.coldest) :
        LET c == result.value.coldest[k].city IN
        /\ df.rows[FirstRowOf(c)].temp_min # result.value.coldest[k].value
        /\ df.rows[FirstRowOf(c)].date > df.rows[LastRowOf(c)].date

----------------------------------------------------------------------------
(* the order of the alerts                                                 *)

\* the place of a type in the order in which generate_alerts emits the types
TypeRank(type) ==
    CASE type = "high_temperature" -> 1
      [] type = "low_temperature" -> 2
      [] type = "high_wind" -> 3
      [] OTHER -> 4

\* the row of the caller's table that alert k of the result is about
AlertRow(k) ==
    CHOOSE i \in Rows : /\ df.rows[i].city = result.value[k].city
                        /\ df.rows[i].time = result.value[k].time

\* C19: the alerts generate_alerts returns are grouped by type: all
\* high_temperature alerts, then all low_temperature, then all high_wind, then
\* all heavy_precipitation ones, and within a type in the order of the rows of
\* the input table
C19_AlertsGroupedByType ==
    (op = "generate_alerts" /\ result.kind = "ok") =>
        \A k, l \in 1..Len(result.value) : k < l =>
            /\ TypeRank(result.value[k].type) <= TypeRank(result.value[l].type)
            /\ result.value[k].type = result.value[l].type => AlertRow(k) < AlertRow(l)

\* a high_temperature alert of the second row comes before a high_wind alert
\* of the first row, and two alerts of one type are in row order
C19_Witness ==
    /\ op = "generate_alerts"
    /\ result.kind = "ok"
    /\ \E k, l \in 1..Len(result.value) :
        /\ k < l
        /\ result.value[k].type = "high_temperature"
        /\ result.value[l].type = "high_wind"
        /\ AlertRow(l) < AlertRow(k)
    /\ \E k, l \in 1..Len(result.value) :
        /\ k < l
        /\ result.value[k].type = result.value[l].type
        /\ AlertRow(k) < AlertRow(l)

\* all four types in one result, the alerts of one row apart from each other
C19_AllTypesWitness ==
    /\ op = "generate_alerts"
    /\ result.kind = "ok"
    /\ {result.value[k].type : k \in 1..Len(result.value)} =
          {"high_temperature", "low_temperature", "high_wind", "heavy_precipitation"}
    /\ \E k, l \in 1..Len(result.value) :
        /\ l > k + 1
        /\ AlertRow(k) = AlertRow(l)

----------------------------------------------------------------------------
(* missing measurements                                                    *)

\* the field an alert type is about
FieldOfType(ty) ==
    CASE ty = "high_wind" -> "wind_speed_10m"
      [] ty = "heavy_precipitation" -> "precipitation"
      [] OTHER -> "temperature_2m"

AlertTypes == {"high_temperature", "low_temperature", "high_wind", "heavy_precipitation"}

\* the value x of the field of type ty is beyond the configured threshold
Beyond(ty, x) ==
    CASE ty = "high_temperature" -> x > alert_config.temperature.high_threshold
      [] ty = "low_temperature" -> x < alert_config.temperature.low_threshold
      [] ty = "high_wind" -> x > alert_config.wind_speed.high_threshold
      [] OTHER -> x > alert_config.precipitation.high_threshold

\* C20: generate_alerts raises no alert from a missing measurement: a row
\* whose temperature, wind speed or precipitation is missing has no alert of
\* the types of that field, and still has one alert for each of its present
\* fields that is beyond its threshold
C20_NoAlertFromMissing ==
    (op = "generate_alerts" /\ result.kind = "ok") =>
        /\ \A k \in 1..Len(result.value) : result.value[k].value # Missing
        /\ \A i \in Rows : \A ty \in AlertTypes :
            LET x == df.rows[i][FieldOfType(ty)] IN
            /\ x = Missing => AlertsFor(i, ty) = {}
            /\ (x # Missing /\ Beyond(ty, x)) => Cardinality(AlertsFor(i, ty)) = 1

\* a row without a temperature and with a wind speed beyond the threshold: a
\* high_wind alert and no temperature alert
C20_Witness ==
    /\ op = "generate_alerts"
    /\ result.kind = "ok"
    /\ \E i \in Rows :
        /\ df.rows[i].temperature_2m = Missing
        /\ df.rows[i].wind_speed_10m # Missing
        /\ Cardinality(AlertsFor(i, "high_wind")) = 1
        /\ AlertsFor(i, "high_temperature") = {}
        /\ AlertsFor(i, "low_temperature") = {}

\* a row none of whose three measurements is present, beside a row with alerts
C20_AllMissingWitness ==
    /\ op = "generate_alerts"
    /\ result.kind = "ok"
    /\ result.value # <<>>
    /\ \E i \in Rows :
        /\ df.rows[i].temperature_2m = Missing
        /\ df.rows[i].wind_speed_10m = Missing
        /\ df.rows[i].precipitation = Missing
        /\ \A ty \in AlertTypes : AlertsFor(i, ty) = {}

----------------------------------------------------------------------------
(* the fetcher                                                             *)

\* the calls of fetch_city_weather that have returned
CompletedCalls ==
    {k \in 1..Len(fetcher.calls) :
        k < fetcher.i \/ fetcher.pc \in {"returned", "loop", "done"}}

\* the requests and the sleeps of call k, in the order in which they happened
RequestsOf(k) == SelectSeq(fetcher.calls[k].events, LAMBDA e : e.kind = "request")

SleepsOf(k) == SelectSeq(fetcher.calls[k].events, LAMBDA e : e.kind = "sleep")

\* call k made a request and none of its requests succeeded
AllRequestsFailed(k) ==
    /\ RequestsOf(k) # <<>>
    /\ \A j \in 1..Len(RequestsOf(k)) : RequestsOf(k)[j].outcome = "fail"

\* the events of a call are n requests with a sleep between each two, the
\* j-th sleep of 2^(j-1) seconds, and no sleep after the last request
AlternatesWithBackoff(events, n) ==
    /\ Len(events) = 2 * n - 1
    /\ \A j \in 1..Len(events) :
        IF j % 2 = 1 THEN events[j].kind = "request"
        ELSE events[j] = [kind |-> "sleep", seconds |-> 2 ^ ((j \div 2) - 1)]

\* C21: when every request of a call of fetch_city_weather fails, the call
\* makes exactly retry_attempts requests, sleeps exactly retry_attempts - 1
\* times, between consecutive attempts and for 1, 2, 4, ... seconds, never
\* after the last attempt, and returns None
C21_RetriesThenNone ==
    \A k \in CompletedCalls :
        AllRequestsFailed(k) =>
            /\ Len(RequestsOf(k)) = fetcher.retry_attempts
            /\ Len(SleepsOf(k)) = fetcher.retry_attempts - 1
            /\ AlternatesWithBackoff(fetcher.calls[k].events, fetcher.retry_attempts)
            /\ fetcher.calls[k].returned = None

\* three attempts that failed: three requests, sleeps of 1 and 2 seconds, None
C21_Witness ==
    \E k \in CompletedCalls :
        /\ fetcher.retry_attempts = 3
        /\ AllRequestsFailed(k)
        /\ Len(RequestsOf(k)) = 3
        /\ [j \in 1..Len(SleepsOf(k)) |-> SleepsOf(k)[j].seconds] = <<1, 2>>
        /\ fetcher.calls[k].returned = None

\* a single attempt that failed: one request, no sleep
C21_SingleAttemptWitness ==
    \E k \in CompletedCalls :
        /\ fetcher.retry_attempts = 1
        /\ AllRequestsFailed(k)
        /\ fetcher.calls[k].events = <<[kind |-> "request", outcome |-> "fail"]>>

\* call k of fetch_city_weather succeeded: one of its requests did
Succeeded(k) ==
    \E j \in 1..Len(RequestsOf(k)) : RequestsOf(k)[j].outcome = "ok"

\* the calls that succeeded, in the order of the calls
SuccessfulCalls == SelectSeq([k \in 1..Len(fetcher.calls) |-> k], Succeeded)

\* C22: fetch_all_cities returns the payloads of exactly the cities whose
\* fetch succeeded, in the order of the list of cities: a city whose fetch
\* failed is left out, no entry is None or lacks a part, and the length of
\* the result is the number of successful cities, at most that of the cities
C22_PayloadsOfSuccessfulCities ==
    fetcher.pc = "done" =>
        /\ Len(fetcher.calls) = Len(fetcher.cities)
        /\ \A k \in 1..Len(fetcher.calls) : fetcher.calls[k].city = fetcher.cities[k]
        /\ Len(fetcher.all_data) = Len(SuccessfulCalls)
        /\ Len(fetcher.all_data) <= Len(fetcher.cities)
        /\ \A j \in 1..Len(fetcher.all_data) :
            LET payload == fetcher.all_data[j]
                city == fetcher.cities[SuccessfulCalls[j]]
            IN  /\ payload # None
                /\ {"city_name", "lat", "lon", "hourly"} \subseteq DOMAIN payload
                /\ payload.city_name = city.name
                /\ payload.lat = city.lat
                /\ payload.lon = city.lon
                /\ Some(payload) = fetcher.calls[SuccessfulCalls[j]].returned
        /\ raw_data = fetcher.all_data

\* two cities, the first of which failed after all its attempts: the result
\* holds the payload of the second one only
C22_Witness ==
    /\ fetcher.pc = "done"
    /\ Len(fetcher.cities) = 2
    /\ fetcher.retry_attempts >= 2
    /\ ~Succeeded(1)
    /\ Succeeded(2)
    /\ Len(fetcher.all_data) = 1
    /\ fetcher.all_data[1].city_name = fetcher.cities[2].name

\* two cities that both succeeded, in the order of the list
C22_BothWitness ==
    /\ fetcher.pc = "done"
    /\ Len(fetcher.all_data) = 2
    /\ fetcher.cities[1] # fetcher.cities[2]
    /\ fetcher.all_data[1].city_name = fetcher.cities[1].name
    /\ fetcher.all_data[2].city_name = fetcher.cities[2].name

----------------------------------------------------------------------------
(* frame effects                                                           *)

\* the methods of the processor that are given a table
TableMethods ==
    {"calculate_moving_averages", "detect_anomalies", "generate_alerts",
     "aggregate_daily_stats", "get_summary_statistics", "get_regional_statistics",
     "get_city_rankings", "detect_weather_patterns"}

C23_DailyWitness ==
    /\ op = "aggregate_daily_stats"
    /\ result.kind = "ok"
    /\ result.value.rows # <<>>
    /\ "date" \notin df.cols

----------------------------------------------------------------------------
(* Missing and invalid settings                                            *)

\* the constructor refused the configuration
Refused == op = "__init__" /\ result.kind = "raise"

\* the setting that the method `name` reads is missing or invalid
BadSettingOf(name) ==
    CASE name = "calculate_moving_averages" -> ma_window < 1
      [] name = "detect_anomalies" -> anomaly_threshold.num <= 0
      [] name = "generate_alerts" -> ~HasThresholds(alert_config)
      [] OTHER -> FALSE

\* C24: a missing or invalid window or threshold setting is reported as a
\* ConfigurationError, by the constructor that finds a setting absent and by
\* the operation that reads a setting no constructor refused (a window below
\* 1, a multiplier that is not positive, an absent alert threshold), before
\* it processes any observation
C24_ConfigurationErrorAtBoundary ==
    /\ Refused => result = Raise("ConfigurationError")
    /\ (~Refused /\ BadSettingOf(op)) => result = Raise("ConfigurationError")

\* what the code does with such settings: an absent setting is a KeyError, of
\* the constructor or of generate_alerts; a window below 1 is a ValueError
\* of the smoothing of a table with rows and goes unnoticed on a table
\* without rows; a multiplier that is not positive is never reported
C24_KeyErrorValueErrorOrNothing ==
    /\ Refused => result = Raise("KeyError")
    /\ (op = "generate_alerts" /\ BadSettingOf(op)) => result = Raise("KeyError")
    /\ (op = "calculate_moving_averages" /\ BadSettingOf(op) /\ df.rows # <<>>
          /\ {"city", "temperature_2m"} \subseteq df.cols)
          => result = Raise("ValueError")
    /\ (op = "calculate_moving_averages" /\ BadSettingOf(op) /\ df.rows = <<>>
          /\ "city" \in df.cols)
          => result = Ok(df)
    /\ (op = "detect_anomalies" /\ BadSettingOf(op)
          /\ {"city", "temperature_2m"} \subseteq df.cols)
          => result.kind = "ok"

\* no ConfigurationError is ever raised
C24_NoConfigurationError ==
    result.kind = "raise" => result.error # "ConfigurationError"

\* a constructor that met a configuration without its window and raised
C24_Witness == Refused /\ result.error = "KeyError"

\* a negative multiplier at work: anomalies were looked for, nothing was
\* raised and an observation was flagged
C24_NegativeThresholdWitness ==
    /\ op = "detect_anomalies"
    /\ anomaly_threshold.num < 0
    /\ result.kind = "ok"
    /\ \E i \in 1..Len(result.value.rows) : result.value.rows[i].temp_anomaly

\* a window of 0 that the smoothing of a table without rows let pass
C24_EmptyTableWitness ==
    /\ op = "calculate_moving_averages"
    /\ ma_window < 1
    /\ result = Ok(df)

\* alert thresholds without the one for low temperatures, met by
\* generate_alerts only
C24_AbsentThresholdWitness ==
    /\ op = "generate_alerts"
    /\ ~HasThresholds(alert_config)
    /\ result = Raise("KeyError")

----------------------------------------------------------------------------
(* The rankings and the latest date                                        *)

\* the row of city c with the latest date in the caller's table
LatestDateRowOf(c) ==
    CHOOSE i \in Rows :
        /\ df.rows[i].city = c
        /\ \A j \in Rows : df.rows[j].city = c => df.rows[j].date <= df.rows[i].date

\* get_city_rankings returned its five lists
Ranked ==
    /\ op = "get_city_rankings"
    /\ result.kind = "ok"
    /\ DOMAIN result.value = RankingNames

\* no city is listed twice in the list `name`
EachCityOnce(name) ==
    \A k, l \in 1..Len(result.value[name]) :
        k # l => result.value[name][k].city # result.value[name][l].city

\* every metric of the list `name` is that of the row `row_of` of its city
MetricsFrom(name, row_of(_)) ==
    \A k \in 1..Len(result.value[name]) :
        result.value[name][k].value
            = df.rows[row_of(result.value[name][k].city)][RankedColumn(name)]

\* C25: in every ranking list each city appears at most once, and the metric
\* shown for a city is that of the city's daily aggregate with the latest
\* date, whatever the order of the rows of the daily table
C25_MetricOfLatestDate ==
    Ranked => \A name \in RankingNames :
                 EachCityOnce(name) /\ MetricsFrom(name, LatestDateRowOf)

\* what the code does: each city once, with the metric of the city's last
\* row in the order of the table
C25_MetricOfLastRow ==
    Ranked => \A name \in RankingNames :
                 EachCityOnce(name) /\ MetricsFrom(name, LastRowOf)

\* the rows of every city are in ascending order of the date
DateOrdered ==
    \A i, j \in Rows :
        (df.rows[i].city = df.rows[j].city /\ i < j) => df.rows[i].date <= df.rows[j].date

\* on a table whose rows are in ascending order of the date within each city,
\* as aggregate_daily_stats returns them, the metric is that of the latest date
C25_LatestDateWhenDateOrdered ==
    (Ranked /\ DateOrdered) => \A name \in RankingNames :
                                   MetricsFrom(name, LatestDateRowOf)

\* a ranking of a table that has the later date of a city first: the hottest
\* list shows the city's value of the earlier date
C25_Witness ==
    /\ Ranked
    /\ \E k \in 1..Len(result.value.hottest) :
        LET c == result.value.hottest[k].city IN
        /\ LatestDateRowOf(c) < LastRowOf(c)
        /\ result.value.hottest[k].value = df.rows[LastRowOf(c)].temp_max
        /\ result.value.hottest[k].value # df.rows[LatestDateRowOf(c)].temp_max

----------------------------------------------------------------------------
(* The order of the tasks of a run                                         *)

\* task t has been started in this run
Started(t) == dag[t].state \in {"running", "success", "up_for_retry", "failed"}

\* task t has completed
Completed(t) == dag[t].state = "success"

\* C26: the steps of a run are in the order fetch, process, store, notify:
\* process starts only after fetch has completed, store only after process
\* has completed, and notify only after store has completed
C26_FetchProcessStoreNotify ==
    /\ Started("process_data") => Completed("fetch_data")
    /\ Started("store_results") => Completed("process_data")
    /\ Started("send_notifications") => Completed("store_results")

\* what the dependencies give: a task starts only after the tasks directly
\* upstream of it have completed, so process follows fetch and both store and
\* notify follow process
C26_UpstreamFirst ==
    \A t \in Tasks : Started(t) => \A u \in Upstream(t) : Completed(u)

\* a task is tried three times at most
C26_TriesBounded ==
    \A t \in Tasks : dag[t].try_number <= Retries + 1

\* the notifications are being sent while nothing has been stored yet
C26_Witness ==
    /\ dag["send_notifications"].state = "running"
    /\ dag["store_results"].state = "none"

\* the notifications were sent in a run whose store step failed for good
C26_StoreFailedWitness ==
    /\ dag["send_notifications"].state = "success"
    /\ dag["store_results"].state = "failed"

----------------------------------------------------------------------------
(* The consolidated alerts                                                 *)

\* the alerts that were consolidated: those of the caller's table
InputAlerts == generate_alerts(df, alert_config).value

\* the positions in `alerts` of the alerts of the group of record r
Members(alerts, r) ==
    {i \in 1..Len(alerts) : GroupKey(alerts[i]) = <<r.city, r.type, r.date>>}

\* the first alert of the group of record r
FirstMember(alerts, r) ==
    alerts[CHOOSE i \in Members(alerts, r) : \A j \in Members(alerts, r) : i <= j]

C27_SortedByDateAndSeverity ==
    op = "consolidate_alerts" =>
        \A k, l \in 1..Len(result.value) : k < l =>
            \/ result.value[k].date > result.value[l].date
            \/ /\ result.value[k].date = result.value[l].date
               /\ result.value[k].severity <= result.value[l].severity

C27_OtherTypeWitness ==
    /\ op = "consolidate_alerts"
    /\ \E k \in 1..Len(result.value) :
        LET alerts == InputAlerts IN
        /\ result.value[k].type = "low_temperature"
        /\ result.value[k].count = 2
        /\ \E i \in Members(alerts, result.value[k]) :
              alerts[i].value < result.value[k].value

\* no alerts, no records
C27_EmptyWitness ==
    /\ op = "consolidate_alerts"
    /\ df.rows # <<>>
    /\ InputAlerts = <<>>
    /\ result = Ok(<<>>)

\* alerts of two dates: the records of the later date come first
C27_TwoDatesWitness ==
    /\ op = "consolidate_alerts"
    /\ \E k, l \in 1..Len(result.value) :
          k < l /\ result.value[k].date > result.value[l].date

----------------------------------------------------------------------------
(* A processor without memory                                              *)

\* what a processor with the attributes `self`, which has processed nothing
\* yet, returns for the method `name` on the batch `raw` or the table `frame`
FreshResult(name, raw, frame, self) ==
    CASE name = "raw_to_dataframe" -> raw_to_dataframe(raw)
      [] name = "calculate_moving_averages" ->
            calculate_moving_averages(frame, self.ma_window)
      [] name = "detect_anomalies" -> detect_anomalies(frame, self.anomaly_threshold)
      [] name = "generate_alerts" -> generate_alerts(frame, self.alert_config)
      [] name = "aggregate_daily_stats" -> aggregate_daily_stats(frame)
      [] name = "detect_weather_patterns" -> detect_weather_patterns(frame)
      [] name = "get_summary_statistics" -> get_summary_statistics(frame)
      [] name = "get_regional_statistics" -> get_regional_statistics(frame)
      [] name = "get_city_rankings" -> get_city_rankings(frame)

C28_ConfigurationKept ==
    \E config \in {TestConfig, OtherAlertConfig} :
        /\ ma_window = config.processing.moving_average_window
        /\ anomaly_threshold = config.processing.anomaly_threshold
        /\ alert_config = config.alerts

C28_AlertsWitness ==
    /\ op = "generate_alerts"
    /\ result.kind = "ok"
    /\ result.value # <<>>
    /\ alert_config = TestConfig.alerts

----------------------------------------------------------------------------
(* The first successful attempt                                            *)

\* a successful request is the last event of its call
EndsAtSuccess(events) ==
    \A j \in 1..Len(events) :
        (events[j].kind = "request" /\ events[j].outcome = "ok") => j = Len(events)

\* `payload` is `body` with the name and the coordinates of `city` set
AnnotatedFor(payload, body, city) ==
    /\ payload.city_name = city.name
    /\ payload.lat = city.lat
    /\ payload.lon = city.lon
    /\ DOMAIN body \subseteq DOMAIN payload
    /\ \A f \in DOMAIN body \ {"city_name", "lat", "lon", "fetch_timestamp"} :
          payload[f] = body[f]

\* C29: fetch_city_weather stops at the first attempt that succeeds: a call
\* whose k-th request is the first to succeed has made exactly k requests,
\* with k at most retry_attempts, and k - 1 sleeps, between the requests; no
\* call has an event after a successful request; the call returns the body
\* of the response with the name and the coordinates of the requested city;
\* with retry_attempts = 0 a call makes no request and returns None
C29_StopsAtFirstSuccess ==
    /\ \A k \in 1..Len(fetcher.calls) : EndsAtSuccess(fetcher.calls[k].events)
    /\ \A k \in CompletedCalls :
        LET call == fetcher.calls[k]
            n == Len(RequestsOf(k))
        IN  /\ Succeeded(k) =>
                /\ 1 <= n /\ n <= fetcher.retry_attempts
                /\ \A j \in 1..(n - 1) : RequestsOf(k)[j].outcome = "fail"
                /\ RequestsOf(k)[n].outcome = "ok"
                /\ Len(SleepsOf(k)) = n - 1
                /\ AlternatesWithBackoff(call.events, n)
                /\ call.returned.kind = "data"
                /\ AnnotatedFor(call.returned.value, RequestsOf(k)[n].body, call.city)
            /\ fetcher.retry_attempts = 0 =>
                /\ call.events = <<>>
                /\ call.returned = None

\* a call for the second city whose second attempt of three succeeded: two
\* requests, one sleep of a second, and the body with the city's name and
\* coordinates
C29_Witness ==
    \E k \in CompletedCalls :
        /\ fetcher.retry_attempts = 3
        /\ fetcher.calls[k].city.name = 2
        /\ Len(fetcher.calls[k].events) = 3
        /\ fetcher.calls[k].events[1] = [kind |-> "request", outcome |-> "fail"]
        /\ fetcher.calls[k].events[2] = [kind |-> "sleep", seconds |-> 1]
        /\ fetcher.calls[k].events[3].outcome = "ok"
        /\ fetcher.calls[k].returned.kind = "data"
        /\ fetcher.calls[k].returned.value.lat = -8
        /\ fetcher.calls[k].returned.value.latitude = -23

\* a fetcher that may not try at all: the call returned None without a
\* request
C29_NoAttemptWitness ==
    \E k \in CompletedCalls :
        /\ fetcher.retry_attempts = 0
        /\ fetcher.calls[k].events = <<>>
        /\ fetcher.calls[k].returned = None

====
